---- MODULE Spec2Model ----
(***************************************************************************)
(* Model of the RAG core of querydoc:                                      *)
(*   - lib/ragUtils.ts     calculateRelevance, findRelevantChunks          *)
(*   - lib/pdfUtils        chunkText (sliding-window branch)               *)
(*   - ChatInterface.tsx   processQuestion and the handlers calling it     *)
(* A JavaScript string is a sequence of one-character strings, so that     *)
(* toLowerCase, replace, split, match and indexOf are computed and not     *)
(* assumed.                                                                *)
(***************************************************************************)
EXTENDS Integers, Sequences, FiniteSets, TLC

VARIABLES
    \* ---- Relevance Ranker (lib/ragUtils.ts), one call of findRelevantChunks
    rkQuestion,     \* argument question
    rkChunks,       \* argument chunks
    rkTopK,         \* argument topK
    rkHistory,      \* argument history (<<>> when not supplied)
    rkScored,       \* the local scoredChunks, before it is sorted
    rkResult,       \* the returned Chunk[]
    rkDone,         \* the call has returned
    \* ---- Segmenter (chunkText), one call
    ckPages,        \* argument pages
    ckSize,         \* argument chunkSize
    ckOverlap,      \* argument overlap
    ckPage,         \* position of the for-of loop over pages (1-based)
    ckWords,        \* the local words of the page being chunked
    ckI,            \* the loop variable i of the sliding window
    ckInLoop,       \* control is inside the sliding-window loop
    ckChunks,       \* the local chunks, returned at the end
    ckChunkIndex,   \* the local chunkIndex
    ckDone,         \* the call has returned
    \* ---- ChatInterface.tsx: component state and what it shares
    messages,       \* useState messages, the transcript
    isLoading,      \* useState isLoading
    streamingContent, \* useState streamingContent, as the sequence of increments
    selectedModel,  \* prop selectedModel (state of the parent page)
    isCloudMode,    \* useState isCloudMode, kept equal to the test on selectedModel
    groq_usage,     \* localStorage item groq_usage
    hasOnModelChange, \* the optional prop onModelChange is supplied
    askAIIsLoading, \* the isLoading seen by the registered 'ask-ai' listener
    turns,          \* the calls of processQuestion that passed the guard
    lastCall,       \* outcome of the latest call of processQuestion
    jumpTimers,     \* pending setTimeout callbacks dispatching 'jump-to-source'
    \* ---- detectScannedPDF: one call
    scPages,        \* parameter pages
    scResult,       \* the value returned
    scDone,         \* the call has returned
    \* ---- queryOllama / queryGroq: the read loop of one call
    stKind,         \* "ollama" or "groq"
    stObjects,      \* the objects the backend sends, in order
    stOut,          \* the body of the response, as the backend writes it
    stPos,          \* characters of the body delivered by reader.read() so far
    stFull,         \* local fullResponse
    stForwarded,    \* the arguments of the calls of onStream, in order
    stReturned,     \* the call has returned
    stResponse      \* the text returned

rankVars == <<rkQuestion, rkChunks, rkTopK, rkHistory, rkScored, rkResult, rkDone>>
chunkVars == <<ckPages, ckSize, ckOverlap, ckPage, ckWords, ckI, ckInLoop,
              ckChunks, ckChunkIndex, ckDone>>
chatVars == <<messages, isLoading, streamingContent, selectedModel, isCloudMode,
             groq_usage, hasOnModelChange, askAIIsLoading, turns, lastCall, jumpTimers>>
scanVars == <<scPages, scResult, scDone>>
streamVars == <<stKind, stObjects, stOut, stPos, stFull, stForwarded, stReturned, stResponse>>
vars == <<rankVars, chunkVars, chatVars, scanVars, streamVars>>

(***************************************************************************)
(* JavaScript string primitives                                            *)
(***************************************************************************)
UpperAlpha == <<"A","B","C","D","E","F","G","H","I","J","K","L","M",
                "N","O","P","Q","R","S","T","U","V","W","X","Y","Z">>
LowerAlpha == <<"a","b","c","d","e","f","g","h","i","j","k","l","m",
                "n","o","p","q","r","s","t","u","v","w","x","y","z">>

\* the characters matched by \s that occur in extracted text
IsSpace(c) == c \in {" ", "\n"}

\* String.prototype.toLowerCase
toLowerCase(s) ==
    SubSeq([i \in 1..Len(s) |->
               IF \E k \in 1..26 : UpperAlpha[k] = s[i]
               THEN LowerAlpha[CHOOSE k \in 1..26 : UpperAlpha[k] = s[i]]
               ELSE s[i]], 1, Len(s))

\* s.replace(/[?.,!]/g, ' ')
stripPunctuation(s) ==
    SubSeq([i \in 1..Len(s) |-> IF s[i] \in {"?", ".", ",", "!"} THEN " " ELSE s[i]],
           1, Len(s))

\* the first position from i on that holds whitespace, Len(s) + 1 if none
nextSpace(s, i) ==
    CHOOSE j \in i..(Len(s) + 1) :
        (j = Len(s) + 1 \/ IsSpace(s[j])) /\ \A k \in i..(j - 1) : ~IsSpace(s[k])

RECURSIVE wordStarts(_, _, _)
\* the positions of lo..hi at which a piece without whitespace begins, in
\* increasing order
wordStarts(s, lo, hi) ==
    IF lo > hi THEN <<>>
    ELSE IF lo = hi
         THEN IF ~IsSpace(s[lo]) /\ (lo = 1 \/ IsSpace(s[lo - 1])) THEN <<lo>> ELSE <<>>
    ELSE LET mid == (lo + hi) \div 2
         IN  wordStarts(s, lo, mid) \o wordStarts(s, mid + 1, hi)

\* the pieces of s that begin at the positions starts
piecesAt(s, starts) ==
    SubSeq([k \in 1..Len(starts) |-> SubSeq(s, starts[k], nextSpace(s, starts[k]) - 1)],
           1, Len(starts))

\* s.split(/\s+/): the pieces between maximal runs of whitespace; a leading
\* or trailing run yields an empty string, and "" splits into [""]
split(s) ==
    IF Len(s) = 0 THEN << <<>> >>
    ELSE (IF IsSpace(s[1]) THEN << <<>> >> ELSE <<>>)
         \o piecesAt(s, wordStarts(s, 1, Len(s)))
         \o (IF IsSpace(s[Len(s)]) THEN << <<>> >> ELSE <<>>)

RECURSIVE join(_)
\* words.join(' ')
join(words) ==
    IF Len(words) = 0 THEN <<>>
    ELSE IF Len(words) = 1 THEN words[1]
    ELSE LET h == Len(words) \div 2
         IN  join(SubSeq(words, 1, h)) \o <<" ">> \o join(SubSeq(words, h + 1, Len(words)))

RECURSIVE trimStart(_)
trimStart(s) == IF Len(s) > 0 /\ IsSpace(s[1]) THEN trimStart(Tail(s)) ELSE s

RECURSIVE trimEnd(_)
trimEnd(s) ==
    IF Len(s) > 0 /\ IsSpace(s[Len(s)]) THEN trimEnd(SubSeq(s, 1, Len(s) - 1)) ELSE s

\* String.prototype.trim
trim(s) == trimEnd(trimStart(s))

\* array.filter(pred)
filter(seq, Pred(_)) == SelectSeq(seq, Pred)

\* s.slice(from, to) on 0-based indices, to exclusive: a negative index
\* counts from the end, and both are clamped to 0..length
slice(s, from, to) ==
    LET f == IF from < 0 THEN (IF Len(s) + from < 0 THEN 0 ELSE Len(s) + from)
             ELSE (IF from > Len(s) THEN Len(s) ELSE from)
        t == IF to < 0 THEN (IF Len(s) + to < 0 THEN 0 ELSE Len(s) + to)
             ELSE (IF to > Len(s) THEN Len(s) ELSE to)
    IN  IF f >= t THEN <<>> ELSE SubSeq(s, f + 1, t)

\* pat occurs in s at 1-based position i
MatchesAt(s, pat, i) ==
    /\ i + Len(pat) - 1 <= Len(s)
    /\ \A k \in 1..Len(pat) : s[i + k - 1] = pat[k]

RECURSIVE CountFrom(_, _, _)
CountFrom(s, pat, i) ==
    IF i + Len(pat) - 1 > Len(s) THEN 0
    ELSE IF MatchesAt(s, pat, i) THEN 1 + CountFrom(s, pat, i + Len(pat))
    ELSE CountFrom(s, pat, i + 1)

\* (s.match(new RegExp(escaped(pat), 'g')) || []).length for a non-empty
\* literal pattern: the number of non-overlapping occurrences, left to right
matchCount(s, pat) == CountFrom(s, pat, 1)

EndsWith(s, suf) ==
    Len(s) >= Len(suf) /\ SubSeq(s, Len(s) - Len(suf) + 1, Len(s)) = suf

\* word.replace(/(ing|ed|s|es)$/, ''): the leftmost match wins, so a final
\* "es" is removed whole and a bare final "s" only when no longer suffix fits
stripSuffix(word) ==
    IF EndsWith(word, <<"i","n","g">>) THEN SubSeq(word, 1, Len(word) - 3)
    ELSE IF EndsWith(word, <<"e","d">>) \/ EndsWith(word, <<"e","s">>)
         THEN SubSeq(word, 1, Len(word) - 2)
    ELSE IF EndsWith(word, <<"s">>) THEN SubSeq(word, 1, Len(word) - 1)
    ELSE word

Min(a, b) == IF a < b THEN a ELSE b

(***************************************************************************)
(* lib/ragUtils.ts                                                         *)
(***************************************************************************)
\* Scores are kept in half points (the code adds 0.5 to uniqueMatches):
\* every score of the model is twice the score of the code.

\* question.toLowerCase().replace(/[?.,!]/g,' ').split(/\s+/).filter(w => w.length > 2)
LongerThan2(w) == Len(w) > 2
questionWordsOf(question) ==
    filter(split(stripPunctuation(toLowerCase(question))), LongerThan2)

\* the exact-match branch applies to this query word
HasExact(word, chunkLower) == matchCount(chunkLower, word) > 0

\* the root of the stemmed branch and whether that branch scores
HasPartial(word, chunkLower) ==
    /\ ~HasExact(word, chunkLower)
    /\ Len(word) > 4
    /\ Len(stripSuffix(word)) > 3
    /\ matchCount(chunkLower, stripSuffix(word)) > 0

\* wordContribution with the uniqueMatches++ of the exact branch left out
wordContributionNoExactBonus(word, chunkLower) ==
    IF HasExact(word, chunkLower)
    THEN [score  |-> 4 * Min(matchCount(chunkLower, word), 3),
          unique |-> 0]
    ELSE IF HasPartial(word, chunkLower)
    THEN [score  |-> 2 * Min(matchCount(chunkLower, stripSuffix(word)), 2),
          unique |-> 1]
    ELSE [score |-> 0, unique |-> 0]

\* one iteration of the loop over questionWords: what it adds to score and
\* to uniqueMatches (both scaled)
wordContribution(word, chunkLower) ==
    IF HasExact(word, chunkLower)
    THEN [score  |-> 4 * Min(matchCount(chunkLower, word), 3),
          unique |-> 2]
    ELSE IF HasPartial(word, chunkLower)
    THEN [score  |-> 2 * Min(matchCount(chunkLower, stripSuffix(word)), 2),
          unique |-> 1]
    ELSE [score |-> 0, unique |-> 0]

RECURSIVE relevanceLoop(_, _, _, _)
relevanceLoop(words, chunkLower, score, uniqueMatches) ==
    IF Len(words) = 0 THEN score + uniqueMatches * 15
    ELSE LET c == wordContribution(words[1], chunkLower)
         IN  relevanceLoop(Tail(words), chunkLower,
                           score + c.score, uniqueMatches + c.unique)

\* calculateRelevance(question, chunk), in half points
calculateRelevance(question, chunk) ==
    relevanceLoop(questionWordsOf(question), toLowerCase(chunk), 0, 0)

\* last n elements of a sequence: array.slice(-n)
lastN(seq, n) == IF Len(seq) <= n THEN seq ELSE SubSeq(seq, Len(seq) - n + 1, Len(seq))

\* first n elements of a sequence: array.slice(0, n)
firstN(seq, n) == IF Len(seq) <= n THEN seq ELSE SubSeq(seq, 1, n)

RECURSIVE dedupe(_, _)
\* [...new Set(seq)]: first occurrences, in order
dedupe(seq, acc) ==
    IF Len(seq) = 0 THEN acc
    ELSE IF \E i \in 1..Len(acc) : acc[i] = seq[1]
         THEN dedupe(Tail(seq), acc)
         ELSE dedupe(Tail(seq), Append(acc, seq[1]))

IsUserMessage(m) == m.role = "user"
LongerThan4(w) == Len(w) > 4

\* history.filter(user).slice(-2).map(lower, strip).join(' ').split(/\s+/)
\*        .filter(w => w.length > 4)
contextKeywordsOf(history) ==
    LET recent == lastN(filter(history, IsUserMessage), 2)
        texts  == [i \in 1..Len(recent) |->
                       stripPunctuation(toLowerCase(recent[i].content))]
    IN  filter(split(join(texts)), LongerThan4)

\* the history words appended to the query: distinct, not a word of the
\* question as split on whitespace, the first five
uniqueHistoryWordsOf(question, history) ==
    LET questionWords == split(toLowerCase(question))
        NotInQuestion(w) == ~ \E i \in 1..Len(questionWords) : questionWords[i] = w
    IN  firstN(filter(dedupe(contextKeywordsOf(history), <<>>), NotInQuestion), 5)

\* step 1 of findRelevantChunks
expandedQueryOf(question, history) ==
    IF Len(history) > 0
    THEN toLowerCase(question) \o <<" ">> \o join(uniqueHistoryWordsOf(question, history))
    ELSE toLowerCase(question)

\* chunks.map(chunk => ({chunk, score}))
scoredChunksOf(query, chunks) ==
    [i \in 1..Len(chunks) |->
        [chunk |-> chunks[i], score |-> calculateRelevance(query, chunks[i].text)]]

RECURSIVE insertByScore(_, _, _)
\* place item after every element whose score is not smaller (stable)
insertByScore(sorted, item, i) ==
    IF i > Len(sorted) THEN Append(sorted, item)
    ELSE IF sorted[i].score >= item.score THEN insertByScore(sorted, item, i + 1)
    ELSE SubSeq(sorted, 1, i - 1) \o <<item>> \o SubSeq(sorted, i, Len(sorted))

\* the scored chunks left in input order
keepInputOrder(items, acc) == acc \o items

RECURSIVE sortByScoreDesc(_, _)
\* scoredChunks.sort((a, b) => b.score - a.score), a stable sort
sortByScoreDesc(items, acc) ==
    IF Len(items) = 0 THEN acc
    ELSE sortByScoreDesc(Tail(items), insertByScore(acc, items[1], 1))

\* the filter with >= in place of >
NonNegativeScore(item) == item.score >= 0

\* item.score > 0
PositiveScore(item) == item.score > 0

\* Math.ceil(topK * 0.7) for the integers topK of the model
perDocumentCap(topK) == (7 * topK + 9) \div 10

\* item.chunk.documentId || 'unknown' ("" stands for a missing documentId)
docIdOf(chunk) == IF chunk.documentId = "" THEN "unknown" ELSE chunk.documentId

\* docCounts[docId] || 0
countOf(docCounts, docId) == IF docId \in DOMAIN docCounts THEN docCounts[docId] ELSE 0

\* the cap test with <= in place of <
underCapInclusive(docCounts, docId, topK) ==
    countOf(docCounts, docId) <= perDocumentCap(topK)

\* the body of the selection loop: is the candidate taken
underCap(docCounts, docId, topK) == countOf(docCounts, docId) < perDocumentCap(topK)

RECURSIVE selectLoop(_, _, _, _)
selectLoop(candidates, topK, selectedChunks, docCounts) ==
    IF Len(candidates) = 0 \/ Len(selectedChunks) >= topK THEN selectedChunks
    ELSE LET chunk == candidates[1].chunk
             docId == docIdOf(chunk)
         IN  IF underCap(docCounts, docId, topK)
             THEN selectLoop(Tail(candidates), topK, Append(selectedChunks, chunk),
                             [k \in (DOMAIN docCounts) \cup {docId} |->
                                 IF k = docId THEN countOf(docCounts, docId) + 1
                                 ELSE docCounts[k]])
             ELSE selectLoop(Tail(candidates), topK, selectedChunks, docCounts)

\* scoredChunks.sort(...).filter(item => item.score > 0)
candidatesOf(query, chunks) ==
    filter(sortByScoreDesc(scoredChunksOf(query, chunks), <<>>), PositiveScore)

\* findRelevantChunks(question, chunks, topK, history)
findRelevantChunks(question, chunks, topK, history) ==
    LET candidates == candidatesOf(expandedQueryOf(question, history), chunks)
    IN  IF Len(candidates) = 0 THEN <<>>
        ELSE selectLoop(candidates, topK, <<>>, [k \in {} |-> 0])

(***************************************************************************)
(* Texts of the model                                                      *)
(***************************************************************************)
Sp == <<" ">>
W_deadline == <<"d","e","a","d","l","i","n","e">>
W_march == <<"m","a","r","c","h">>
W_March == <<"M","a","r","c","h">>
W_walk == <<"w","a","l","k">>
W_walked == <<"w","a","l","k","e","d">>
W_weather == <<"w","e","a","t","h","e","r">>
W_What == <<"W","h","a","t">>
W_is == <<"i","s">>
W_the == <<"t","h","e">>
W_The == <<"T","h","e">>
W_zzz == <<"z","z","z">>

\* the scenario of the specification
Q_deadline == W_What \o Sp \o W_is \o Sp \o W_the \o Sp \o W_deadline \o <<"?">>
T_page2 == W_The \o Sp \o W_deadline \o Sp \o W_is \o Sp \o W_March \o Sp
           \o <<"1","s","t",".">>
T_page5 == <<"U","n","r","e","l","a","t","e","d">> \o Sp \o <<"t","e","x","t">> \o Sp
           \o <<"a","b","o","u","t">> \o Sp \o W_weather \o <<".">>

Chunk(id, doc, page, text) ==
    [chunkId |-> id, documentId |-> doc, pageNumber |-> page, text |-> text]

ScenarioChunks == << Chunk("chunk-2-0", "", 2, T_page2), Chunk("chunk-5-1", "", 5, T_page5) >>

\* the chunks the ranker's inputs are drawn from: four of one document, one
\* of a second document and one without documentId
ChunkPool ==
    { Chunk("a1", "doc1", 1, W_deadline \o Sp \o W_march),
      Chunk("a2", "doc1", 1, W_walk \o Sp \o W_walk \o Sp \o W_walk),
      Chunk("a3", "doc1", 2, W_March),
      Chunk("a4", "doc1", 3, W_deadline),
      Chunk("b1", "doc2", 1, W_weather),
      Chunk("u1", "", 1, W_march \o Sp \o W_march) }

Questions ==
    { W_march \o Sp \o W_deadline \o Sp \o W_walked,
      W_walked,
      W_zzz \o <<"?">>,
      W_What \o Sp \o W_is \o Sp \o W_the \o Sp \o W_weather \o <<"?">> }

Histories ==
    { <<>>,
      << [role |-> "user", content |-> W_the \o Sp \o W_deadline \o <<"?">>],
         [role |-> "assistant", content |-> W_weather] >> }

\* histories of the scenario: none, and three user messages around an
\* assistant message, the last two holding seven distinct long words
W_walking == <<"w","a","l","k","i","n","g">>
W_marches == <<"m","a","r","c","h","e","s">>
W_zzzzz == <<"z","z","z","z","z">>
ScenarioHistories ==
    { <<>>,
      << [role |-> "user", content |-> W_zzzzz \o Sp \o W_walked],
         [role |-> "user", content |-> W_The \o Sp \o W_deadline \o <<"?">> \o Sp \o W_weather],
         [role |-> "assistant", content |-> W_zzzzz \o W_zzzzz],
         [role |-> "user", content |-> W_weather \o Sp \o W_march \o Sp \o W_marches \o Sp
                                       \o W_walking \o Sp \o W_deadline \o Sp
                                       \o W_zzzzz \o W_zzz \o Sp \o W_walk \o W_walk] >> }

\* bounds of the ranker's inputs
MaxChunks == 4
MaxTopK == 4

\* sequences without repetition of at most n chunks of the pool
RECURSIVE ChunkLists(_)
ChunkLists(n) ==
    IF n = 0 THEN { <<>> }
    ELSE LET shorter == ChunkLists(n - 1)
         IN  shorter \cup
             { Append(l[1], l[2]) :
                 l \in { x \in shorter \X ChunkPool :
                            /\ Len(x[1]) = n - 1
                            /\ \A i \in 1..Len(x[1]) : x[1][i] # x[2] } }

\* topK = 10 against three documents with eight matching chunks each
DiversityTopK == 10
DiversityChunks ==
    [i \in 1..24 |->
        Chunk(<<"c", i>>, IF i <= 8 THEN "doc1" ELSE IF i <= 16 THEN "doc2" ELSE "doc3",
              i, W_march)]

\* a word three times over
Thrice(w) == w \o Sp \o w \o Sp \o w

\* six distinct query words against a chunk holding five of them three
\* times each and a chunk holding each of the six once
Q_sixWords == W_march \o Sp \o W_deadline \o Sp \o W_walk \o Sp \o W_What \o Sp
              \o W_zzz \o Sp \o W_weather
SixWordsChunks ==
    << Chunk("five-thrice", "doc1", 1,
             Thrice(W_march) \o Sp \o Thrice(W_deadline) \o Sp \o Thrice(W_walk) \o Sp
             \o Thrice(W_What) \o Sp \o Thrice(W_zzz)),
       Chunk("six-once", "doc1", 2, Q_sixWords) >>

\* a question that repeats one of its words against a chunk that repeats
\* that word and a chunk holding the two other words
Q_repeated == Thrice(W_march) \o Sp \o W_deadline \o Sp \o W_weather
RepeatedChunks ==
    << Chunk("one-concept", "doc1", 1, Thrice(W_march)),
       Chunk("two-concepts", "doc1", 2, W_deadline \o Sp \o W_weather) >>

\* the segmenter is not running
IdleChunk ==
    /\ ckPages = <<>>
    /\ ckSize = 1
    /\ ckOverlap = 0
    /\ ckPage = 1
    /\ ckWords = <<>>
    /\ ckI = 0
    /\ ckInLoop = FALSE
    /\ ckChunks = <<>>
    /\ ckChunkIndex = 0
    /\ ckDone = FALSE

\* no call of detectScannedPDF is under way
IdleScan ==
    /\ scPages = <<>>
    /\ scResult = FALSE
    /\ scDone = FALSE

\* no backend response is being read
IdleStream ==
    /\ stKind = "none"
    /\ stObjects = <<>>
    /\ stOut = <<>>
    /\ stPos = 0
    /\ stFull = <<>>
    /\ stForwarded = <<>>
    /\ stReturned = FALSE
    /\ stResponse = <<>>

\* no chat component is mounted
IdleChat ==
    /\ messages = <<>>
    /\ isLoading = FALSE
    /\ streamingContent = <<>>
    /\ selectedModel = "qwen2.5:3b"
    /\ isCloudMode = FALSE
    /\ groq_usage = 0
    /\ hasOnModelChange = FALSE
    /\ askAIIsLoading = FALSE
    /\ turns = <<>>
    /\ lastCall = "none"
    /\ jumpTimers = <<>>

\* no call of findRelevantChunks is being observed
IdleRank ==
    /\ rkQuestion = <<>>
    /\ rkChunks = <<>>
    /\ rkTopK = 1
    /\ rkHistory = <<>>
    /\ rkScored = <<>>
    /\ rkResult = <<>>
    /\ rkDone = FALSE

InitRank ==
    /\ \/ /\ rkQuestion \in Questions
          /\ rkChunks \in ChunkLists(MaxChunks)
          /\ rkTopK \in 1..MaxTopK
          /\ rkHistory \in Histories
       \/ /\ rkQuestion = Q_deadline
          /\ rkChunks = ScenarioChunks
          /\ rkTopK = 3
          /\ rkHistory \in ScenarioHistories
       \/ /\ rkQuestion = W_march
          /\ rkChunks = DiversityChunks
          /\ rkTopK = DiversityTopK
          /\ rkHistory = <<>>
       \/ /\ rkQuestion = Q_sixWords
          /\ rkChunks = SixWordsChunks
          /\ rkTopK = 3
          /\ rkHistory = <<>>
       \/ /\ rkQuestion = Q_repeated
          /\ rkChunks = RepeatedChunks
          /\ rkTopK = 3
          /\ rkHistory = <<>>
    /\ rkScored = <<>>
    /\ rkResult = <<>>
    /\ rkDone = FALSE
    /\ IdleChunk
    /\ IdleChat
    /\ IdleScan
    /\ IdleStream

\* one call of findRelevantChunks(rkQuestion, rkChunks, rkTopK, rkHistory)
Rank ==
    /\ ~rkDone
    /\ rkScored' = scoredChunksOf(expandedQueryOf(rkQuestion, rkHistory), rkChunks)
    /\ rkResult' = findRelevantChunks(rkQuestion, rkChunks, rkTopK, rkHistory)
    /\ rkDone' = TRUE
    /\ UNCHANGED <<rkQuestion, rkChunks, rkTopK, rkHistory, chunkVars, chatVars, scanVars, streamVars>>

NextRank == Rank

SpecRank == InitRank /\ [][NextRank]_vars

(***************************************************************************)
(* chunkText, sliding-window branch (pages without positional items)       *)
(***************************************************************************)
\* the window one word short
chunkWordsShort(words, i, chunkSize) == slice(words, i, i + chunkSize - 1)

\* words.slice(i, i + chunkSize)
chunkWordsOf(words, i, chunkSize) == slice(words, i, i + chunkSize)

\* the increment with the sign of overlap flipped
nextWindowStartPlus(i, chunkSize, overlap) == i + (chunkSize + overlap)

\* the increment of the loop: i += chunkSize - overlap
nextWindowStart(i, chunkSize, overlap) == i + (chunkSize - overlap)

\* the index left as it was
sameChunkIndex(chunkIndex) == chunkIndex

\* chunkIndex++: the value of chunkIndex after a push
nextChunkIndex(chunkIndex) == chunkIndex + 1

\* the chunk pushed for one window
windowChunk(pageNumber, index, text) ==
    [chunkId |-> <<"chunk", pageNumber, index>>, text |-> text,
     pageNumber |-> pageNumber, chunkIndex |-> index]

\* bounds of the segmenter's inputs
MaxPages == 2
MaxWords == 6
MaxChunkSize == 4
\* iterations followed of a loop whose window does not advance
MaxRepeats == 3

\* chunkText(pages, 100, 20), as the document loader calls it
LoaderChunkSize == 100
LoaderOverlap == 20
LoaderWords == 190

\* the n-th of a list of pairwise distinct two-letter words
DistinctWord(n) == << LowerAlpha[(n % 26) + 1], LowerAlpha[((n \div 26) % 26) + 1] >>
\* a list in which words repeat
RepeatedWord(n) == IF n % 2 = 1 THEN <<"x">> ELSE <<"y","y">>

\* page texts as extraction leaves them: trimmed, separated by runs of
\* whitespace
PageTexts ==
    { join([i \in 1..n |-> DistinctWord(i)]) : n \in 0..MaxWords }
    \cup { join([i \in 1..n |-> RepeatedWord(i)]) : n \in 1..MaxWords }
    \cup { <<"a", " ", "\n", "b", " ", " ", "c">> }

PageLists ==
    UNION { [1..n -> PageTexts] : n \in 1..MaxPages }

InitChunkText ==
    /\ \/ /\ \E texts \in PageLists :
                ckPages = [p \in 1..Len(texts) |->
                              [pageNumber |-> p, text |-> texts[p], items |-> <<>>]]
          /\ ckSize \in 1..MaxChunkSize
          /\ ckOverlap \in 0..(MaxChunkSize + 1)
       \/ /\ ckPages = << [pageNumber |-> 1, items |-> <<>>,
                           text |-> join([i \in 1..LoaderWords |-> DistinctWord(i)])] >>
          /\ ckSize = LoaderChunkSize
          /\ ckOverlap = LoaderOverlap
    /\ ckPage = 1
    /\ ckWords = <<>>
    /\ ckI = 0
    /\ ckInLoop = FALSE
    /\ ckChunks = <<>>
    /\ ckChunkIndex = 0
    /\ ckDone = FALSE
    /\ IdleRank
    /\ IdleChat
    /\ IdleScan
    /\ IdleStream

\* for (const page of pages): a page without items enters the fallback
\* branch, const words = page.text.split(/\s+/), i = 0
EnterPage ==
    /\ ~ckDone /\ ~ckInLoop
    /\ ckPage <= Len(ckPages)
    /\ Len(ckPages[ckPage].items) = 0
    /\ ckWords' = split(ckPages[ckPage].text)
    /\ ckI' = 0
    /\ ckInLoop' = TRUE
    /\ UNCHANGED <<ckPages, ckSize, ckOverlap, ckPage, ckChunks, ckChunkIndex, ckDone, rankVars, chatVars, scanVars, streamVars>>

\* one iteration of for (let i = 0; i < words.length; i += chunkSize - overlap)
Window ==
    /\ ckInLoop
    /\ ckI < Len(ckWords)
    /\ ckOverlap < ckSize \/ (Len(ckChunks) < MaxRepeats /\ ckI > -MaxRepeats)
    /\ LET chunkText == join(chunkWordsOf(ckWords, ckI, ckSize))
       IN  IF Len(trim(chunkText)) > 0
           THEN /\ ckChunks' = Append(ckChunks,
                        windowChunk(ckPages[ckPage].pageNumber, ckChunkIndex, chunkText))
                /\ ckChunkIndex' = nextChunkIndex(ckChunkIndex)
           ELSE UNCHANGED <<ckChunks, ckChunkIndex>>
    /\ ckI' = nextWindowStart(ckI, ckSize, ckOverlap)
    /\ UNCHANGED <<ckPages, ckSize, ckOverlap, ckPage, ckWords, ckInLoop, ckDone, rankVars, chatVars, scanVars, streamVars>>

\* the loop condition fails: on to the next page
LeavePage ==
    /\ ckInLoop
    /\ ckI >= Len(ckWords)
    /\ ckInLoop' = FALSE
    /\ ckPage' = ckPage + 1
    /\ UNCHANGED <<ckPages, ckSize, ckOverlap, ckWords, ckI, ckChunks, ckChunkIndex, ckDone, rankVars, chatVars, scanVars, streamVars>>

\* return chunks
ReturnChunks ==
    /\ ~ckDone /\ ~ckInLoop
    /\ ckPage > Len(ckPages)
    /\ ckDone' = TRUE
    /\ UNCHANGED <<ckPages, ckSize, ckOverlap, ckPage, ckWords, ckI, ckInLoop,
                   ckChunks, ckChunkIndex, rankVars, chatVars, scanVars, streamVars>>

NextChunk == EnterPage \/ Window \/ LeavePage \/ ReturnChunks

SpecChunk == InitChunkText /\ [][NextChunk]_vars

(***************************************************************************)
(* chunkText: pages with positional items                                  *)
(***************************************************************************)
\* const Y_TOLERANCE = 5
Y_TOLERANCE == 5

\* Math.abs
abs(x) == IF x < 0 THEN -x ELSE x

\* the comparator of the sort: negative, zero or positive
compareItems(a, b) ==
    IF abs(a.top - b.top) > Y_TOLERANCE THEN a.top - b.top ELSE a.left - b.left

RECURSIVE insertItem(_, _, _)
\* place item after every element the comparator does not put behind it
insertItem(sorted, item, i) ==
    IF i > Len(sorted) THEN Append(sorted, item)
    ELSE IF compareItems(sorted[i], item) <= 0 THEN insertItem(sorted, item, i + 1)
    ELSE SubSeq(sorted, 1, i - 1) \o <<item>> \o SubSeq(sorted, i, Len(sorted))

RECURSIVE sortItems(_, _)
\* [...page.items].sort(comparator), a stable sort
sortItems(items, acc) ==
    IF Len(items) = 0 THEN acc
    ELSE sortItems(Tail(items), insertItem(acc, items[1], 1))

\* the height a line takes from an item without one
DefaultHeight == 10

\* item.height || 10
heightOr10(item) == IF item.height = 0 THEN DefaultHeight ELSE item.height

Max(a, b) == IF a > b THEN a ELSE b

RECURSIVE strsOf(_)
\* items.map(it => it.str)
strsOf(items) ==
    IF Len(items) = 0 THEN <<>> ELSE <<items[1].str>> \o strsOf(Tail(items))

\* lines.push({top, height, items, text})
lineOf(top, height, items) ==
    [top |-> top, height |-> height, items |-> items, text |-> join(strsOf(items))]

RECURSIVE linesLoop(_, _, _, _, _)
\* for (const item of sortedItems) and the push after it
linesLoop(sortedItems, lines, currentLine, currentLineTop, currentLineHeight) ==
    IF Len(sortedItems) = 0
    THEN IF Len(currentLine) > 0
         THEN Append(lines, lineOf(currentLineTop, currentLineHeight, currentLine))
         ELSE lines
    ELSE LET item == sortedItems[1]
         IN  IF abs(item.top - currentLineTop) > Y_TOLERANCE
             THEN linesLoop(Tail(sortedItems),
                            IF Len(currentLine) > 0
                            THEN Append(lines, lineOf(currentLineTop, currentLineHeight, currentLine))
                            ELSE lines,
                            <<item>>, item.top, heightOr10(item))
             ELSE linesLoop(Tail(sortedItems), lines, Append(currentLine, item),
                            currentLineTop, Max(currentLineHeight, heightOr10(item)))

\* the lines of a page with at least one item
linesOf(sortedItems) ==
    linesLoop(sortedItems, <<>>, <<>>, sortedItems[1].top, heightOr10(sortedItems[1]))

\* verticalGap > (line.height * 1.5)
isNewParagraph(verticalGap, height) == 2 * verticalGap > 3 * height

RECURSIVE paragraphsLoop(_, _, _, _)
\* for (const line of lines) and the push after it
paragraphsLoop(lines, paragraphs, currentParagraph, lastLineTop) ==
    IF Len(lines) = 0
    THEN IF Len(currentParagraph) > 0 THEN Append(paragraphs, currentParagraph)
         ELSE paragraphs
    ELSE LET line == lines[1]
         IN  IF isNewParagraph(line.top - lastLineTop, line.height)
                /\ Len(currentParagraph) > 0
             THEN paragraphsLoop(Tail(lines), Append(paragraphs, currentParagraph),
                                 line.items, line.top)
             ELSE paragraphsLoop(Tail(lines), paragraphs,
                                 currentParagraph \o line.items, line.top)

\* the paragraphs of a page, each the sequence of its items
paragraphsOf(items) ==
    LET lines == linesOf(sortItems(items, <<>>))
    IN  paragraphsLoop(lines, <<>>, <<>>, lines[1].top)

\* the length a paragraph's trimmed text has to exceed
MinParagraphText == 5

\* chunkText.trim().length > 5
longEnough(chunkText) == Len(trim(chunkText)) > MinParagraphText

RECURSIVE rectsOf(_)
\* paragraphItems.map(it => ({top, left, width, height}))
rectsOf(items) ==
    IF Len(items) = 0 THEN <<>>
    ELSE << [top |-> items[1].top, left |-> items[1].left,
             width |-> items[1].width, height |-> items[1].height] >>
         \o rectsOf(Tail(items))

\* the chunk pushed for one paragraph
paragraphChunk(pageNumber, index, text, items) ==
    [chunkId |-> <<"chunk", pageNumber, index>>, text |-> text,
     pageNumber |-> pageNumber, chunkIndex |-> index, rects |-> rectsOf(items)]

RECURSIVE paragraphChunksLoop(_, _, _, _)
\* for (const paragraphItems of paragraphs): the chunks pushed, chunkIndex
\* advancing with each push
paragraphChunksLoop(paragraphs, pageNumber, chunkIndex, pushed) ==
    IF Len(paragraphs) = 0 THEN pushed
    ELSE LET chunkText == join(strsOf(paragraphs[1]))
         IN  IF longEnough(chunkText)
             THEN paragraphChunksLoop(Tail(paragraphs), pageNumber,
                      nextChunkIndex(chunkIndex),
                      Append(pushed, paragraphChunk(pageNumber, chunkIndex,
                                                    chunkText, paragraphs[1])))
             ELSE paragraphChunksLoop(Tail(paragraphs), pageNumber, chunkIndex, pushed)

\* text: text.trim() of the items' strings joined, as extraction stores it
pageTextOf(items) == trim(join(strsOf(items)))

\* bound of the items of a page
MaxItems == 3

Item(str, top, left, height) ==
    [str |-> str, top |-> top, left |-> left, width |-> 10, height |-> height]

\* items of the model: two of one line (one without height), a blank one a
\* line below, a page number and a paragraph far below
ItemPool ==
    { Item(<<"H","e","l","l","o"," ","w","o","r","l","d">>, 0, 0, 10),
      Item(<<"1","2">>, 3, 20, 0),
      Item(<<" ">>, 14, 0, 10),
      Item(<<"7">>, 100, 0, 10),
      Item(<<"S","e","c","o","n","d"," ","p","a","r","a","g","r","a","p","h">>, 200, 0, 12) }

\* sequences without repetition of 1..n items of the pool
RECURSIVE ItemLists(_)
ItemLists(n) ==
    IF n = 0 THEN { <<>> }
    ELSE LET shorter == ItemLists(n - 1)
         IN  shorter \cup
             { Append(l[1], l[2]) :
                 l \in { x \in shorter \X ItemPool :
                            /\ Len(x[1]) = n - 1
                            /\ \A i \in 1..Len(x[1]) : x[1][i] # x[2] } }

\* pages as extraction leaves them: with items and their joined text, or
\* (restored from storage without items) with text alone
LayoutPages ==
    { [text |-> pageTextOf(items), items |-> items] : items \in ItemLists(MaxItems) \ { <<>> } }
    \cup { [text |-> t, items |-> <<>>] :
              t \in { <<>>, join([i \in 1..3 |-> DistinctWord(i)]),
                      <<"a", " ", "\n", "b", " ", " ", "c">> } }

InitLayout ==
    /\ \E n \in 1..MaxPages : \E ps \in [1..n -> LayoutPages] :
          ckPages = [p \in 1..n |->
                        [pageNumber |-> p, text |-> ps[p].text, items |-> ps[p].items]]
    /\ ckSize = 2
    /\ ckOverlap \in 0..1
    /\ ckPage = 1
    /\ ckWords = <<>>
    /\ ckI = 0
    /\ ckInLoop = FALSE
    /\ ckChunks = <<>>
    /\ ckChunkIndex = 0
    /\ ckDone = FALSE
    /\ IdleRank
    /\ IdleChat
    /\ IdleScan
    /\ IdleStream

\* for (const page of pages): a page with items, through lines and
\* paragraphs to its chunks
LayoutPage ==
    /\ ~ckDone /\ ~ckInLoop
    /\ ckPage <= Len(ckPages)
    /\ Len(ckPages[ckPage].items) > 0
    /\ LET pushed == paragraphChunksLoop(paragraphsOf(ckPages[ckPage].items),
                                         ckPages[ckPage].pageNumber, ckChunkIndex, <<>>)
       IN  /\ ckChunks' = ckChunks \o pushed
           /\ ckChunkIndex' = IF Len(pushed) = 0 THEN ckChunkIndex
                               ELSE nextChunkIndex(pushed[Len(pushed)].chunkIndex)
    /\ ckPage' = ckPage + 1
    /\ UNCHANGED <<ckPages, ckSize, ckOverlap, ckWords, ckI, ckInLoop, ckDone,
                   rankVars, chatVars, scanVars, streamVars>>

NextLayout == EnterPage \/ Window \/ LeavePage \/ LayoutPage \/ ReturnChunks

SpecLayout == InitLayout /\ [][NextLayout]_vars

(***************************************************************************)
(* detectScannedPDF                                                        *)
(***************************************************************************)
RECURSIVE totalTextOf(_)
\* pages.reduce((acc, page) => acc + page.text, '')
totalTextOf(pages) ==
    IF Len(pages) = 0 THEN <<>>
    ELSE totalTextOf(SubSeq(pages, 1, Len(pages) - 1)) \o pages[Len(pages)].text

\* the floor of the total text length
MinTotalText == 100

\* totalText.length <= 100 in place of < 100
tooLittleTextInclusive(totalText) == Len(totalText) <= MinTotalText

\* totalText.length < 100
tooLittleText(totalText) == Len(totalText) < MinTotalText

\* pages.some(p => p.text.trim().length === 0)
hasEmptyPage(pages) == \E p \in 1..Len(pages) : Len(trim(pages[p].text)) = 0

detectScannedPDF(pages) ==
    IF tooLittleText(totalTextOf(pages)) THEN TRUE
    ELSE IF hasEmptyPage(pages) THEN TRUE
    ELSE FALSE

\* bound of the pages of one call, and the lengths of their texts
MaxScanPages == 2
ScanLengths == {0, 1, MinTotalText \div 2 - 1, MinTotalText \div 2, MinTotalText \div 2 + 1,
                MinTotalText - 1, MinTotalText, MinTotalText + 1}

\* a trimmed page text of n characters
ScanText(n) == [i \in 1..n |-> IF i % 4 = 0 /\ i < n THEN " " ELSE "x"]

ScanPageLists ==
    UNION { [1..n -> { ScanText(k) : k \in ScanLengths }] : n \in 0..MaxScanPages }

InitScan ==
    /\ \E texts \in ScanPageLists :
          scPages = [p \in 1..Len(texts) |-> [pageNumber |-> p, text |-> texts[p]]]
    /\ scResult = FALSE
    /\ scDone = FALSE
    /\ IdleRank
    /\ IdleChunk
    /\ IdleChat
    /\ IdleStream

\* the call of detectScannedPDF(pages)
DetectScanned ==
    /\ ~scDone
    /\ scResult' = detectScannedPDF(scPages)
    /\ scDone' = TRUE
    /\ UNCHANGED <<scPages, rankVars, chunkVars, chatVars, streamVars>>

NextScan == DetectScanned

SpecScan == InitScan /\ [][NextScan]_vars

(***************************************************************************)
(* lib/ollama.ts and lib/groq.ts: the read loops                           *)
(***************************************************************************)
\* The body of a response is a sequence of symbols. A letter is a character
\* of an increment; every other symbol stands for a fixed piece of the wire
\* format, which a read can end before or after:
\*   ollama  "{" = {"response":"     "," = ","done":    "t"/"f" = true/false
\*           "}" = }
\*   groq    "d" = data:␣   "{" = {"choices":[{"delta":{"content":"
\*           "}" = "}}]}    "D" = [DONE]
TextChars == {"a", "b", "c"}

RECURSIVE splitNewline(_)
\* chunk.split('\n')
splitNewline(s) ==
    IF \A i \in 1..Len(s) : s[i] # "\n" THEN << s >>
    ELSE LET i == CHOOSE i \in 1..Len(s) : s[i] = "\n" /\ \A j \in 1..(i - 1) : s[j] # "\n"
         IN  << SubSeq(s, 1, i - 1) >> \o splitNewline(SubSeq(s, i + 1, Len(s)))

\* line => line.trim()
nonBlank(line) == Len(trim(line)) > 0

\* chunk.split('\n').filter(line => line.trim())
linesOfRead(chunk) == filter(splitNewline(chunk), nonBlank)

\* JSON.parse(line) of queryOllama: the object of a whole line; anything
\* else throws or has neither response nor done
parseOllama(line) ==
    IF /\ Len(line) >= 4
       /\ line[1] = "{" /\ line[Len(line)] = "}"
       /\ line[Len(line) - 1] \in {"t", "f"} /\ line[Len(line) - 2] = ","
       /\ \A i \in 2..(Len(line) - 3) : line[i] \in TextChars
    THEN [response |-> SubSeq(line, 2, Len(line) - 3), done |-> line[Len(line) - 1] = "t"]
    ELSE [response |-> <<>>, done |-> FALSE]

RECURSIVE ollamaLines(_, _, _)
\* the for loop of lines 52-75: fullResponse, the calls of onStream, and
\* whether the function returned at a done object
ollamaLines(lines, fullResponse, forwarded) ==
    IF Len(lines) = 0
    THEN [full |-> fullResponse, forwarded |-> forwarded, returned |-> FALSE]
    ELSE LET json == parseOllama(lines[1])
             full == fullResponse \o json.response
             fwd == IF Len(json.response) > 0 THEN Append(forwarded, json.response)
                    ELSE forwarded
         IN  IF json.done
             THEN [full |-> full, forwarded |-> fwd, returned |-> TRUE]
             ELSE ollamaLines(Tail(lines), full, fwd)

\* line.includes('[DONE]')
includesDone(line) == \E i \in 1..Len(line) : line[i] = "D"

\* line.startsWith('data: ')
startsWithData(line) == Len(line) > 0 /\ line[1] = "d"

\* json.choices[0]?.delta?.content || '' of JSON.parse(line.replace('data: ', '')),
\* and '' when the parse throws (the catch of lines 52-54)
contentOf(line) ==
    LET payload == Tail(line)
    IN  IF /\ Len(payload) >= 2
           /\ payload[1] = "{" /\ payload[Len(payload)] = "}"
           /\ \A i \in 2..(Len(payload) - 1) : payload[i] \in TextChars
        THEN SubSeq(payload, 2, Len(payload) - 1)
        ELSE <<>>

RECURSIVE groqLines(_, _, _)
\* the for loop of lines 41-55
groqLines(lines, fullResponse, forwarded) ==
    IF Len(lines) = 0
    THEN [full |-> fullResponse, forwarded |-> forwarded, returned |-> FALSE]
    ELSE IF includesDone(lines[1]) \/ ~startsWithData(lines[1])
    THEN groqLines(Tail(lines), fullResponse, forwarded)
    ELSE LET content == contentOf(lines[1])
         IN  IF Len(content) > 0
             THEN groqLines(Tail(lines), fullResponse \o content, Append(forwarded, content))
             ELSE groqLines(Tail(lines), fullResponse, forwarded)

\* what the backends write for an object
ollamaLine(object) ==
    <<"{">> \o object.response \o <<",", IF object.done THEN "t" ELSE "f", "}", "\n">>
groqLine(object) ==
    IF object.done THEN <<"d", "D", "\n", "\n">>
    ELSE <<"d", "{">> \o object.response \o <<"}", "\n", "\n">>

RECURSIVE bodyOf(_, _)
bodyOf(kind, objects) ==
    IF Len(objects) = 0 THEN <<>>
    ELSE (IF kind = "ollama" THEN ollamaLine(objects[1]) ELSE groqLine(objects[1]))
         \o bodyOf(kind, Tail(objects))

\* bound of the objects sent before the one that ends the stream
MaxObjects == 2

\* the increments a backend sends
Increments == { <<"a">>, <<"b", "c">> }

\* 1..MaxObjects increments, then the object with done: true (the [DONE] line)
ObjectLists ==
    { [i \in 1..(n + 1) |->
          IF i <= n THEN [response |-> incs[i], done |-> FALSE]
          ELSE [response |-> <<>>, done |-> TRUE]] :
        n \in 1..MaxObjects, incs \in [1..MaxObjects -> Increments] }

InitStream ==
    /\ stKind \in {"ollama", "groq"}
    /\ stObjects \in ObjectLists
    /\ stOut = bodyOf(stKind, stObjects)
    /\ stPos = 0
    /\ stFull = <<>>
    /\ stForwarded = <<>>
    /\ stReturned = FALSE
    /\ stResponse = <<>>
    /\ IdleRank
    /\ IdleChunk
    /\ IdleChat
    /\ IdleScan

\* one iteration of the while loop of queryOllama: reader.read() delivers
\* the next n characters of the body
OllamaRead(n) ==
    /\ stKind = "ollama" /\ ~stReturned
    /\ stPos + n <= Len(stOut)
    /\ LET chunk == SubSeq(stOut, stPos + 1, stPos + n)
           after == ollamaLines(linesOfRead(chunk), stFull, stForwarded)
       IN  /\ stFull' = after.full
           /\ stForwarded' = after.forwarded
           /\ stReturned' = after.returned
           /\ stResponse' = IF after.returned THEN after.full ELSE stResponse
    /\ stPos' = stPos + n
    /\ UNCHANGED <<stKind, stObjects, stOut, rankVars, chunkVars, chatVars, scanVars>>

\* one iteration of the while loop of queryGroq
GroqRead(n) ==
    /\ stKind = "groq" /\ ~stReturned
    /\ stPos + n <= Len(stOut)
    /\ LET chunk == SubSeq(stOut, stPos + 1, stPos + n)
           after == groqLines(linesOfRead(chunk), stFull, stForwarded)
       IN  /\ stFull' = after.full
           /\ stForwarded' = after.forwarded
    /\ stPos' = stPos + n
    /\ UNCHANGED <<stKind, stObjects, stOut, stReturned, stResponse,
                   rankVars, chunkVars, chatVars, scanVars>>

\* reader.read() reports done: break, return fullResponse
EndOfStream ==
    /\ ~stReturned /\ stKind # "none"
    /\ stPos = Len(stOut)
    /\ stReturned' = TRUE
    /\ stResponse' = stFull
    /\ UNCHANGED <<stKind, stObjects, stOut, stPos, stFull, stForwarded,
                   rankVars, chunkVars, chatVars, scanVars>>

NextStream ==
    \/ \E n \in 1..Len(stOut) : OllamaRead(n)
    \/ \E n \in 1..Len(stOut) : GroqRead(n)
    \/ EndOfStream

SpecStream == InitStream /\ [][NextStream]_vars

(***************************************************************************)
(* components/ChatInterface.tsx                                            *)
(***************************************************************************)
GROQ_LIMIT == 5

LocalModel == "gemma2:2b"
FallbackModel == "llama-3.1-8b-instant"

\* selectedModel.includes('llama') || .includes('mixtral') || .includes('gemma2-9b'),
\* on the models of the model
isCloudModel(model) == model = FallbackModel

\* the chunks prop: the scenario's document, its chunks cut by the
\* layout-aware segmenter (one rect per word)
DocChunks ==
    << [chunkId |-> "chunk-2-0", documentId |-> "", pageNumber |-> 2,
        text |-> T_page2, rects |-> <<1, 2, 3, 4, 5>>],
       [chunkId |-> "chunk-5-1", documentId |-> "", pageNumber |-> 5,
        text |-> T_page5, rects |-> <<6, 7, 8, 9>>] >>

\* the questions a user submits, and their characters
UserQuestions == { "What is the deadline?", "zzz" }
CharsOf(q) ==
    CASE q = "What is the deadline?" -> Q_deadline
      [] q = "zzz" -> W_zzz
      [] OTHER -> <<>>

\* message texts; a content is the sequence of the pieces it concatenates
OfflineLimitText == "Local model is offline and Cloud Backup limit (5/5) has been reached. Please check your Ollama connection at "
FallbackText == "Note: Local Ollama is offline. Automatically switched to Cloud Backup (Llama 8B). (Requests left: "
LimitText == "Cloud Backup limit reached (5/5). Please switch back to local models or check your Ollama connection."
NoRelevantText == "No relevant content found in the document."
MemoryTip == "Tip: This model might be too heavy for your system. Try switching to Gemma 2B or Groq Cloud in the selector above."
Digits == <<"1", "2", "3", "4", "5", "6", "7", "8", "9">>
NumberText(n) == IF n \in 1..9 THEN Digits[n] ELSE "0"

\* error.message of the errors queryGroq and queryOllama throw
GroqErrors == { "Groq request failed" }
OllamaErrors == { "Cannot connect to Ollama. Please ensure Ollama is running at the base URL",
                  "model requires more system memory than is available" }

\* displayError.toLowerCase().includes('memory')
includesMemory(text) == text = "model requires more system memory than is available"

\* m.content.includes('Cannot connect to Ollama')
includesCannotConnect(content) ==
    \E i \in 1..Len(content) :
        content[i] = "Cannot connect to Ollama. Please ensure Ollama is running at the base URL"

\* the increments a backend streams for an answer
AnswerToken == "The deadline is March 1st, as stated."

\* what the pinpoint call can answer: a quoted sentence of the page-2 chunk,
\* a phrase of no chunk, a phrase too short to be used, nothing
PhraseFound == <<"\"">> \o W_deadline \o Sp \o W_is \o Sp \o W_March \o Sp
               \o <<"1","s","t",".">> \o <<"\"">>
PhraseAbsent == W_weather \o Sp \o W_deadline
PhraseShort == Sp \o W_March
PinpointResults == { PhraseFound, PhraseAbsent, PhraseShort, <<>> }

Message(role, content) ==
    [role |-> role, content |-> content, pageNumber |-> 0, sourceChunks |-> <<>>]

\* usage >= GROQ_LIMIT with > in place of >=
quotaExhaustedStrict(usage) == usage > GROQ_LIMIT

\* usage >= GROQ_LIMIT
quotaExhausted(usage) == usage >= GROQ_LIMIT

\* relevantChunks.length === 0, never true
noRelevantChunksNever(relevantChunks) == Len(relevantChunks) < 0

\* relevantChunks.length === 0
noRelevantChunks(relevantChunks) == Len(relevantChunks) = 0

\* messages.slice(-4).map(m => ({role, content})), the characters of the
\* content restored for the ranker
historyOf(closureMessages) ==
    LET recent == lastN(closureMessages, 4)
    IN  [i \in 1..Len(recent) |->
            [role |-> recent[i].role,
             content |-> IF Len(recent[i].content) = 1
                         THEN CharsOf(recent[i].content[1]) ELSE <<>>]]

\* s.indexOf(pat), 0-based, -1 when absent
indexOf(s, pat) ==
    IF \E i \in 1..(Len(s) + 1) : MatchesAt(s, pat, i)
    THEN (CHOOSE i \in 1..(Len(s) + 1) :
              MatchesAt(s, pat, i) /\ \A j \in 1..(i - 1) : ~MatchesAt(s, pat, j)) - 1
    ELSE -1

IsQuote(c) == c \in {"\"", "'"}

\* s.replace(/^["']|["']$/g, '')
stripQuotes(s) ==
    LET t == IF Len(s) > 0 /\ IsQuote(s[1]) THEN Tail(s) ELSE s
    IN  IF Len(t) > 0 /\ IsQuote(t[Len(t)]) THEN SubSeq(t, 1, Len(t) - 1) ELSE t

\* pinpointResult.trim().replace(/^["']|["']$/g, '')
exactPhraseOf(pinpointResult) == stripQuotes(trim(pinpointResult))

\* the citation left without rects
noRects(newRects, rects) == <<>>

\* newRects.length > 0 ? newRects : chunk.rects
narrowedRects(newRects, rects) == IF Len(newRects) > 0 THEN newRects ELSE rects

\* the callback of relevantChunks.map: the chunk with its rects narrowed to
\* the words of the phrase, or the chunk itself
pinpointChunk(chunk, exactPhrase) ==
    LET phraseLower == toLowerCase(exactPhrase)
        chunkLower == toLowerCase(chunk.text)
        idxStart == indexOf(chunkLower, phraseLower)
        beforeStr == slice(chunkLower, 0, idxStart)
        activeStr == slice(chunkLower, idxStart, idxStart + Len(exactPhrase))
        startWordIndex == IF Len(trim(beforeStr)) > 0
                          THEN Len(split(trim(beforeStr))) ELSE 0
        phraseWordCount == Len(split(trim(activeStr)))
        endWordIndex == startWordIndex + phraseWordCount
        validEndWordIndex == Min(endWordIndex, Len(chunk.rects))
        newRects == slice(chunk.rects, startWordIndex, validEndWordIndex)
    IN  IF idxStart # -1 /\ Len(chunk.rects) > 0 /\ startWordIndex < Len(chunk.rects)
        THEN [chunkId |-> chunk.chunkId, documentId |-> chunk.documentId,
              pageNumber |-> chunk.pageNumber, text |-> chunk.text,
              pinpointText |-> exactPhrase,
              rects |-> narrowedRects(newRects, chunk.rects)]
        ELSE chunk

\* let pinpointedChunks = [...relevantChunks], initialised empty instead
pinpointedInitiallyEmpty(relevantChunks) == <<>>

\* let pinpointedChunks = [...relevantChunks]: the value kept when the try
\* block of the pinpoint step does not assign it
pinpointedInitially(relevantChunks) == relevantChunks

\* pinpointedChunks after a pinpoint call that returned pinpointResult
pinpointedChunksOf(relevantChunks, pinpointResult) ==
    LET exactPhrase == exactPhraseOf(pinpointResult)
    IN  IF Len(exactPhrase) > 10
        THEN [i \in 1..Len(relevantChunks) |-> pinpointChunk(relevantChunks[i], exactPhrase)]
        ELSE pinpointedInitially(relevantChunks)

\* the assistant message of the commit
assistantMessage(fullResponse, pinpointedChunks) ==
    [role |-> "assistant", content |-> fullResponse,
     pageNumber |-> IF Len(pinpointedChunks) > 0 THEN pinpointedChunks[1].pageNumber ELSE 0,
     sourceChunks |-> pinpointedChunks]

\* the message of the catch block for error.message = text
errorMessage(text) ==
    Message("assistant", IF includesMemory(text) THEN <<text, MemoryTip>> ELSE <<text>>)


\* the requests used in place of the requests left
requestsUsed(usage) == usage

\* ${GROQ_LIMIT - usage}
requestsLeft(usage) == GROQ_LIMIT - usage

\* the stored count written back as it was read
incrementGroqUsageLost(current) == current

\* incrementGroqUsage(): setItem('groq_usage', current + 1)
incrementGroqUsage(current) == current + 1

\* the transcript left as it is
appendNothing(prev, question) == prev

\* setMessages(prev => [...prev, userMessage])
appendUserMessage(prev, question) == Append(prev, Message("user", <<question>>))

\* bounds of the chat model
MaxTurns == 2
MaxTokens == 1

\* a call of processQuestion that passed the guard, at its first line
NewTurn(question) ==
    [pc |-> "start", question |-> question,
     history |-> historyOf(messages),       \* from the messages of its closure
     effectiveModel |-> selectedModel, effectiveIsCloud |-> isCloudMode,
     relevantChunks |-> <<>>, fullResponse |-> <<>>, received |-> <<>>,
     \* what the turn did, kept for the properties
     outcome |-> "", routed |-> "", usageAtCheck |-> -1, ranked |-> FALSE,
     genRequests |-> 0, pinRequests |-> 0, pinOutcome |-> "",
     jumps |-> <<>>]                        \* details of its dispatched 'jump-to-source' events

Active(t) == turns[t].pc \in {"probe", "import", "generate", "pinpoint"}

\* the 'ask-ai' effect depends on [chunks, messages, selectedModel,
\* isCloudMode]: when one of them changes, the listener is registered again
\* and sees the isLoading of that render; otherwise it keeps the one it had
ListenerAfter(newMessages, newModel, newLoading) ==
    IF newMessages # messages \/ newModel # selectedModel
    THEN newLoading ELSE askAIIsLoading

\* lines 143-159, once the effective provider of turn t is decided: the
\* quota check of the cloud provider, then setIsLoading(true)
\* base: turns with the turn as it stands; msgs: the transcript so far in
\* this step; model: selectedModel after this step
ProviderDecided(t, base, msgs, model) ==
    IF base[t].effectiveIsCloud /\ quotaExhausted(groq_usage)
    THEN /\ messages' = Append(msgs, Message("assistant", <<LimitText>>))
         /\ turns' = [base EXCEPT ![t].pc = "done", ![t].outcome = "limit",
                                  ![t].usageAtCheck = groq_usage]
         /\ askAIIsLoading' = isLoading
         /\ UNCHANGED <<isLoading, streamingContent>>
    ELSE /\ messages' = msgs
         /\ isLoading' = TRUE
         /\ streamingContent' = <<>>
         /\ turns' = [base EXCEPT ![t].pc = "import",
                                  ![t].usageAtCheck = IF base[t].effectiveIsCloud
                                                      THEN groq_usage ELSE -1]
         /\ askAIIsLoading' = ListenerAfter(msgs, model, TRUE)

\* processQuestion(question), lines 96-159, up to its first await
ProcessQuestion(question, closureIsLoading) ==
    IF Len(trim(CharsOf(question))) = 0
    THEN /\ lastCall' = "blank"
         /\ UNCHANGED <<messages, isLoading, streamingContent, selectedModel,
                        isCloudMode, groq_usage, askAIIsLoading, turns, jumpTimers>>
    ELSE IF closureIsLoading
    THEN /\ lastCall' = "busy"
         /\ UNCHANGED <<messages, isLoading, streamingContent, selectedModel,
                        isCloudMode, groq_usage, askAIIsLoading, turns, jumpTimers>>
    ELSE LET t == Len(turns) + 1
             withUser == appendUserMessage(messages, question)
         IN  /\ lastCall' = "accepted"
             /\ IF ~isCloudMode
                THEN \* await checkOllamaStatus()
                     /\ messages' = withUser
                     /\ turns' = Append(turns, [NewTurn(question) EXCEPT !.pc = "probe"])
                     /\ askAIIsLoading' = isLoading
                     /\ UNCHANGED <<isLoading, streamingContent>>
                ELSE ProviderDecided(t,
                        Append(turns, [NewTurn(question) EXCEPT !.routed = "cloud"]),
                        withUser, selectedModel)
             /\ UNCHANGED <<selectedModel, isCloudMode, groq_usage, jumpTimers>>

\* the form's onSubmit: the processQuestion of the current render
HandleSubmit(question) ==
    /\ Len(turns) < MaxTurns
    /\ ProcessQuestion(question, isLoading)
    /\ UNCHANGED <<hasOnModelChange, rankVars, chunkVars, scanVars, streamVars>>

\* the 'ask-ai' listener: the processQuestion of the render that registered it
HandleAskAI(question) ==
    /\ Len(turns) < MaxTurns
    /\ ProcessQuestion(question, askAIIsLoading)
    /\ UNCHANGED <<hasOnModelChange, rankVars, chunkVars, scanVars, streamVars>>

\* await checkOllamaStatus() returns, lines 113-159
ProbeReturn(t, isOllamaRunning) ==
    /\ turns[t].pc = "probe"
    /\ IF isOllamaRunning
       THEN /\ ProviderDecided(t, [turns EXCEPT ![t].routed = "local"],
                               messages, selectedModel)
            /\ UNCHANGED <<selectedModel, isCloudMode>>
       ELSE IF quotaExhausted(groq_usage)
       THEN /\ messages' = Append(messages,
                    Message("assistant", <<OfflineLimitText>>))
            /\ turns' = [turns EXCEPT ![t].pc = "done", ![t].outcome = "offline_limit",
                                      ![t].routed = "cloud",
                                      ![t].usageAtCheck = groq_usage]
            /\ askAIIsLoading' = isLoading
            /\ UNCHANGED <<isLoading, streamingContent, selectedModel, isCloudMode>>
       ELSE LET model == IF hasOnModelChange THEN FallbackModel ELSE selectedModel
            IN  /\ selectedModel' = model
                /\ isCloudMode' = isCloudModel(model)
                /\ ProviderDecided(t,
                      [turns EXCEPT ![t].effectiveModel = FallbackModel,
                                    ![t].effectiveIsCloud = TRUE,
                                    ![t].routed = "cloud"],
                      Append(messages, Message("assistant",
                          <<FallbackText, NumberText(requestsLeft(groq_usage)), ")">>)),
                      model)
    /\ UNCHANGED <<groq_usage, hasOnModelChange, lastCall, jumpTimers, rankVars, chunkVars, scanVars, streamVars>>

\* the catch and finally blocks, lines 294-312, for error.message = text
Catch(t, text) ==
    /\ messages' = Append(messages, errorMessage(text))
    /\ streamingContent' = <<>>
    /\ isLoading' = FALSE
    /\ askAIIsLoading' = FALSE
    /\ turns' = [turns EXCEPT ![t].pc = "done", ![t].outcome = "error",
                              ![t].ranked = TRUE]

\* findRelevantChunks(question, chunks, 15, history)
RankerTopK == 15

\* await import('react-hot-toast') resolves; lines 167-197 up to the await
\* of the generation call
ImportResolve(t) ==
    /\ turns[t].pc = "import"
    /\ LET relevantChunks == findRelevantChunks(CharsOf(turns[t].question), DocChunks,
                                                RankerTopK, turns[t].history)
       IN  IF noRelevantChunks(relevantChunks)
           THEN Catch(t, NoRelevantText)
           ELSE /\ turns' = [turns EXCEPT ![t].pc = "generate", ![t].ranked = TRUE,
                                          ![t].relevantChunks = relevantChunks,
                                          ![t].genRequests = @ + 1]
                /\ UNCHANGED <<messages, isLoading, streamingContent, askAIIsLoading>>
    /\ UNCHANGED <<selectedModel, isCloudMode, groq_usage, hasOnModelChange, lastCall,
                   jumpTimers, rankVars, chunkVars, scanVars, streamVars>>

\* await import('react-hot-toast') rejects: the rejection is raised outside
\* the try block and ends the call
ImportReject(t) ==
    /\ turns[t].pc = "import"
    /\ turns' = [turns EXCEPT ![t].pc = "rejected", ![t].outcome = "unhandled"]
    /\ UNCHANGED <<messages, isLoading, streamingContent, selectedModel, isCloudMode,
                   groq_usage, hasOnModelChange, askAIIsLoading, lastCall, jumpTimers,
                   rankVars, chunkVars, scanVars, streamVars>>

\* the onStream callback of the generation call, lines 190-197 and 200-207
StreamToken(t) ==
    /\ turns[t].pc = "generate"
    /\ Len(turns[t].received) < MaxTokens
    /\ IF turns[t].effectiveIsCloud
       THEN /\ turns' = [turns EXCEPT ![t].received = Append(@, AnswerToken),
                                      ![t].fullResponse = Append(@, AnswerToken)]
            /\ streamingContent' = Append(turns[t].fullResponse, AnswerToken)
       ELSE /\ turns' = [turns EXCEPT ![t].received = Append(@, AnswerToken)]
            /\ streamingContent' = Append(streamingContent, AnswerToken)
    /\ UNCHANGED <<messages, isLoading, selectedModel, isCloudMode, groq_usage,
                   hasOnModelChange, askAIIsLoading, lastCall, jumpTimers,
                   rankVars, chunkVars, scanVars, streamVars>>

\* the generation call returns: incrementGroqUsage() or fullResponse =
\* result.response, then the pinpoint call is issued, lines 198-223
GenerationReturn(t) ==
    /\ turns[t].pc = "generate"
    /\ IF turns[t].effectiveIsCloud
       THEN /\ groq_usage' = incrementGroqUsage(groq_usage)
            /\ turns' = [turns EXCEPT ![t].pc = "pinpoint", ![t].pinRequests = @ + 1]
       ELSE /\ groq_usage' = groq_usage
            /\ turns' = [turns EXCEPT ![t].pc = "pinpoint", ![t].pinRequests = @ + 1,
                                      ![t].fullResponse = turns[t].received]
    /\ UNCHANGED <<messages, isLoading, streamingContent, selectedModel, isCloudMode,
                   hasOnModelChange, askAIIsLoading, lastCall, jumpTimers,
                   rankVars, chunkVars, scanVars, streamVars>>

\* the generation call throws
GenerationThrow(t, text) ==
    /\ turns[t].pc = "generate"
    /\ text \in (IF turns[t].effectiveIsCloud THEN GroqErrors ELSE OllamaErrors)
    /\ Catch(t, text)
    /\ UNCHANGED <<selectedModel, isCloudMode, groq_usage, hasOnModelChange, lastCall,
                   jumpTimers, rankVars, chunkVars, scanVars, streamVars>>

\* the last chunk in place of the first
jumpDetailLast(pinpointedChunks) == pinpointedChunks[Len(pinpointedChunks)]

\* { detail: pinpointedChunks[0] }
jumpDetailOf(pinpointedChunks) == pinpointedChunks[1]

\* lines 273-293 and 310-312: the jump-to-source timer, the assistant
\* message, the streaming state and isLoading
Commit(t, pinpointedChunks, pinOutcome) ==
    /\ jumpTimers' = IF Len(pinpointedChunks) > 0
                     THEN Append(jumpTimers,
                                 [turn |-> t, detail |-> jumpDetailOf(pinpointedChunks)])
                     ELSE jumpTimers
    /\ messages' = Append(messages,
                          assistantMessage(turns[t].fullResponse, pinpointedChunks))
    /\ streamingContent' = <<>>
    /\ isLoading' = FALSE
    /\ askAIIsLoading' = FALSE
    /\ turns' = [turns EXCEPT ![t].pc = "done", ![t].outcome = "committed",
                              ![t].pinOutcome = pinOutcome]
    /\ UNCHANGED <<selectedModel, isCloudMode, groq_usage, hasOnModelChange, lastCall,
                   rankVars, chunkVars, scanVars, streamVars>>

\* the pinpoint call returns pinpointResult, lines 225-268
PinpointReturn(t, pinpointResult) ==
    /\ turns[t].pc = "pinpoint"
    /\ Commit(t, pinpointedChunksOf(turns[t].relevantChunks, pinpointResult), "returned")

\* the pinpoint call throws, lines 269-271
PinpointThrow(t) ==
    /\ turns[t].pc = "pinpoint"
    /\ Commit(t, pinpointedInitially(turns[t].relevantChunks), "threw")

\* the callback of setTimeout(..., 100) dispatches 'jump-to-source'
FireJumpTimer ==
    /\ Len(jumpTimers) > 0
    /\ jumpTimers' = Tail(jumpTimers)
    /\ turns' = [turns EXCEPT ![Head(jumpTimers).turn].jumps =
                                 Append(@, Head(jumpTimers).detail)]
    /\ UNCHANGED <<messages, isLoading, streamingContent, selectedModel, isCloudMode,
                   groq_usage, hasOnModelChange, askAIIsLoading, lastCall,
                   rankVars, chunkVars, scanVars, streamVars>>

\* handleUrlChange with a non-empty URL, lines 342-347
HandleUrlChange ==
    /\ ~isCloudMode
    /\ LET Kept(m) == ~includesCannotConnect(m.content)
       IN  /\ messages' = SelectSeq(messages, Kept)
           /\ messages' # messages
    /\ askAIIsLoading' = isLoading
    /\ UNCHANGED <<isLoading, streamingContent, selectedModel, isCloudMode, groq_usage,
                   hasOnModelChange, turns, lastCall, jumpTimers, rankVars, chunkVars, scanVars, streamVars>>

\* localStorage 'groq_usage' when the component mounts: clearStorage() leaves
\* it, so a new conversation starts with the count of the earlier ones
StoredUsage == {0, GROQ_LIMIT - 1, GROQ_LIMIT}

\* the Fast and Quality buttons: onModelChange?.(model), then the effect that
\* recomputes isCloudMode from the selectedModel prop
SelectModel(model) ==
    /\ hasOnModelChange
    /\ model # selectedModel
    /\ selectedModel' = model
    /\ isCloudMode' = isCloudModel(model)
    /\ askAIIsLoading' = isLoading
    /\ UNCHANGED <<messages, isLoading, streamingContent, groq_usage, hasOnModelChange,
                   turns, lastCall, jumpTimers, rankVars, chunkVars, scanVars, streamVars>>

InitChat ==
    /\ messages = <<>>
    /\ isLoading = FALSE
    /\ streamingContent = <<>>
    /\ selectedModel \in {LocalModel, FallbackModel}
    /\ isCloudMode = isCloudModel(selectedModel)
    /\ groq_usage \in StoredUsage
    /\ hasOnModelChange \in BOOLEAN
    /\ askAIIsLoading = FALSE
    /\ turns = <<>>
    /\ lastCall = "none"
    /\ jumpTimers = <<>>
    /\ IdleRank
    /\ IdleChunk
    /\ IdleScan
    /\ IdleStream

Next ==
    \/ \E q \in UserQuestions \cup {""} : HandleSubmit(q)
    \/ \E q \in UserQuestions : HandleAskAI(q)
    \/ \E t \in 1..Len(turns) :
          \/ \E isOllamaRunning \in BOOLEAN : ProbeReturn(t, isOllamaRunning)
          \/ ImportResolve(t)
          \/ ImportReject(t)
          \/ StreamToken(t)
          \/ GenerationReturn(t)
          \/ \E text \in GroqErrors \cup OllamaErrors : GenerationThrow(t, text)
          \/ \E pinpointResult \in PinpointResults : PinpointReturn(t, pinpointResult)
          \/ PinpointThrow(t)
    \/ FireJumpTimer
    \/ HandleUrlChange
    \/ \E model \in {LocalModel, FallbackModel} : SelectModel(model)

Init == InitChat

Spec == Init /\ [][Next]_vars

\* the event loop runs a due timer callback; whether and when a backend
\* answers a request is not the program's to decide
SpecEventLoop == Init /\ [][Next]_vars /\ WF_vars(FireJumpTimer)

(***************************************************************************)
(* Properties of the Relevance Ranker, checked under SpecRank              *)
(***************************************************************************)
\* the query the chunks are scored against
RankQueryWords == questionWordsOf(expandedQueryOf(rkQuestion, rkHistory))

\* w occurs in text as a substring
Occurs(text, w) == \E i \in 1..Len(text) : MatchesAt(text, w, i)

\* the result chunks that count for the same source as chunk c
SameSource(c) ==
    { i \in 1..Len(rkResult) : docIdOf(rkResult[i]) = docIdOf(c) }

\* C5: findRelevantChunks returns at most topK chunks and at most
\* ceil(topK * 0.7) chunks of one documentId (the chunks without documentId
\* counting as one source); with topK = 10 that is at most 7.
DiversityCap ==
    rkDone =>
        /\ Len(rkResult) <= rkTopK
        /\ \A i \in 1..Len(rkResult) :
              /\ 10 * (Cardinality(SameSource(rkResult[i])) - 1) < 7 * rkTopK
              /\ rkTopK = 10 => Cardinality(SameSource(rkResult[i])) <= 7

\* topK = 10, three documents of eight matching chunks: the first document
\* fills its seven places and the result is completed by the second
DiversityCapWitness ==
    /\ rkDone
    /\ rkTopK = DiversityTopK
    /\ rkChunks = DiversityChunks
    /\ Len(rkResult) = 10
    /\ Cardinality({ i \in 1..Len(rkResult) : rkResult[i].documentId = "doc1" }) = 7
    /\ Cardinality({ i \in 1..Len(rkResult) : rkResult[i].documentId = "doc2" }) = 3

\* the distinct words of qw found verbatim in text
ExactWords(qw, text) ==
    { qw[k] : k \in { k \in 1..Len(qw) : Occurs(text, qw[k]) } }

\* the words of qw not found verbatim in text whose stem is found
PartialWords(qw, text) ==
    { k \in 1..Len(qw) :
        /\ ~Occurs(text, qw[k])
        /\ Len(qw[k]) > 4
        /\ Len(stripSuffix(qw[k])) > 3
        /\ Occurs(text, stripSuffix(qw[k])) }

\* text matches nothing but the stem of one query word
OnlyOnePartial(qw, text) ==
    ExactWords(qw, text) = {} /\ Cardinality(PartialWords(qw, text)) = 1

\* text matches two distinct query words exactly
TwoExact(qw, text) == Cardinality(ExactWords(qw, text)) >= 2

\* the chunks of the call that are in the one or the other case
MonotonicityPairs(qw) ==
    { a \in 1..Len(rkChunks) : TwoExact(qw, toLowerCase(rkChunks[a].text)) }
    \X { b \in 1..Len(rkChunks) : OnlyOnePartial(qw, toLowerCase(rkChunks[b].text)) }

ScenarioReturnsOnlyPage2 ==
    (rkDone /\ rkQuestion = Q_deadline /\ rkChunks = ScenarioChunks /\ rkTopK = 3)
        => (Len(rkResult) = 1 /\ rkResult[1].pageNumber = 2)

\* C8: every returned chunk has a strictly positive score for the expanded
\* query, and the result is empty exactly when no chunk scores positively.
ZeroScoreExclusion ==
    rkDone =>
        /\ \A r \in 1..Len(rkResult) :
              \E i \in 1..Len(rkChunks) :
                  rkChunks[i] = rkResult[r] /\ rkScored[i].score > 0
        /\ (Len(rkResult) = 0) <=> (\A i \in 1..Len(rkChunks) : rkScored[i].score <= 0)

\* fewer than topK chunks score positively and a zero-score chunk is left out
ZeroScoreExclusionWitness ==
    /\ rkDone
    /\ Len(rkResult) > 0
    /\ Len(rkResult) < rkTopK
    /\ \E i \in 1..Len(rkChunks) : rkScored[i].score = 0

\* the position in rkChunks of a returned chunk (the chunks of a call are distinct)
InputIndex(chunk) == CHOOSE i \in 1..Len(rkChunks) : rkChunks[i] = chunk

\* chunk i is ranked before chunk j: higher score, or equal score and
\* earlier in the input
RankedBefore(i, j) ==
    \/ rkScored[i].score > rkScored[j].score
    \/ (rkScored[i].score = rkScored[j].score /\ i < j)

\* the input positions of the returned chunks ranked before chunk i
SelectedBefore(i) ==
    { j \in { InputIndex(rkResult[r]) : r \in 1..Len(rkResult) } : RankedBefore(j, i) }

\* those of them of the document of chunk i
SelectedBeforeOfDocument(i) ==
    { j \in SelectedBefore(i) : docIdOf(rkChunks[j]) = docIdOf(rkChunks[i]) }

\* chunk i is not returned
LeftOut(i) == \A r \in 1..Len(rkResult) : rkResult[r] # rkChunks[i]

\* C20: findRelevantChunks returns chunks in non-increasing score order,
\* equal scores in input order, and a chunk with a positive score is left
\* out only if topK chunks ranked before it were selected or ceil(topK * 0.7)
\* chunks of its document ranked before it were selected.
GreedySelection ==
    rkDone =>
        /\ \A r \in 1..Len(rkResult) : \E i \in 1..Len(rkChunks) : rkChunks[i] = rkResult[r]
        /\ \A r, q \in 1..Len(rkResult) :
              r < q => RankedBefore(InputIndex(rkResult[r]), InputIndex(rkResult[q]))
        /\ \A i \in 1..Len(rkChunks) :
              (rkScored[i].score > 0 /\ LeftOut(i))
                  => \/ Cardinality(SelectedBefore(i)) >= rkTopK
                     \/ 10 * Cardinality(SelectedBeforeOfDocument(i)) >= 7 * rkTopK

\* a call whose result holds two chunks of equal score and a chunk of lower
\* score given first, and that leaves out a matching chunk of a document at
\* its cap while fewer than topK chunks were selected before it
GreedySelectionWitness ==
    /\ rkDone
    /\ \E r \in 1..(Len(rkResult) - 1) :
          rkScored[InputIndex(rkResult[r])].score = rkScored[InputIndex(rkResult[r + 1])].score
    /\ \E r, q \in 1..Len(rkResult) :
          /\ InputIndex(rkResult[r]) < InputIndex(rkResult[q])
          /\ rkScored[InputIndex(rkResult[r])].score < rkScored[InputIndex(rkResult[q])].score
    /\ \E i \in 1..Len(rkChunks) :
          /\ rkScored[i].score > 0
          /\ LeftOut(i)
          /\ Cardinality(SelectedBefore(i)) < rkTopK

\* the non-empty pieces of s between runs of whitespace
WordsIn(s) ==
    LET pieces == split(s)
    IN  { pieces[i] : i \in { i \in 1..Len(pieces) : Len(pieces[i]) > 0 } }

\* the words of the last two user messages of the history
RecentUserWords(history) ==
    LET recent == lastN(filter(history, IsUserMessage), 2)
    IN  UNION { WordsIn(stripPunctuation(toLowerCase(recent[i].content))) :
                  i \in 1..Len(recent) }

\* what the expanded query holds after the question
AppendedPart(question, history) ==
    LET q == expandedQueryOf(question, history)
    IN  SubSeq(q, Len(question) + 1, Len(q))

\* C22: with history the expanded query is the question followed by at most
\* 5 distinct words of the last two user messages, each longer than 4
\* characters and not a word of the question (punctuation of the question's
\* words aside); without history it is the question alone.
QueryExpansion ==
    rkDone =>
        LET q == expandedQueryOf(rkQuestion, rkHistory)
            appended == split(trim(AppendedPart(rkQuestion, rkHistory)))
            added == WordsIn(AppendedPart(rkQuestion, rkHistory))
        IN  /\ SubSeq(q, 1, Len(rkQuestion)) = toLowerCase(rkQuestion)
            /\ Len(rkHistory) = 0 => q = toLowerCase(rkQuestion)
            /\ Cardinality(added) <= 5
            /\ added # {} => Len(appended) = Cardinality(added)
            /\ \A w \in added :
                  /\ Len(w) > 4
                  /\ w \in RecentUserWords(rkHistory)
                  /\ w \notin WordsIn(stripPunctuation(toLowerCase(rkQuestion)))

\* the distinct words of qw that text matches, verbatim or by stem
MatchedWords(qw, text) ==
    { qw[k] : k \in { k \in 1..Len(qw) : HasExact(qw[k], text) \/ HasPartial(qw[k], text) } }

\* every word of qw that text matches, it matches verbatim
OnlyExactMatches(qw, text) == \A k \in 1..Len(qw) : ~HasPartial(qw[k], text)

\* C21: of any two chunks the one that matches strictly more distinct query
\* words scores strictly higher, however often the other repeats the words
\* it matches (stated here for chunks whose matches are all verbatim).
UniqueMatchBonusDominates ==
    rkDone =>
        LET qw == RankQueryWords
            texts == [i \in 1..Len(rkChunks) |-> toLowerCase(rkChunks[i].text)]
            distinct == [i \in 1..Len(rkChunks) |->
                            IF OnlyExactMatches(qw, texts[i])
                            THEN Cardinality(MatchedWords(qw, texts[i])) ELSE -1]
        IN  \A a, b \in 1..Len(rkChunks) :
                \/ rkScored[a].score > rkScored[b].score
                \/ ~(distinct[b] >= 0 /\ distinct[a] > distinct[b])

(***************************************************************************)
(* Properties of the sliding-window segmenter, checked under SpecChunk     *)
(***************************************************************************)
\* the chunks emitted for page p, in order
ChunksOfPage(p) ==
    LET OfPage(c) == c.pageNumber = p IN SelectSeq(ckChunks, OfPage)

\* the words of the k-th chunk of page p
ChunkWords(p, k) == split(ChunksOfPage(p)[k].text)

\* the words of page p
PageWords(p) == split(ckPages[p].text)

\* C9: for every page with non-empty text the sliding window emits at least
\* one chunk, and the word at every position of the page is in the chunk of
\* a window over that position.
ChunkCoverage ==
    ckDone =>
        \A p \in 1..Len(ckPages) :
            Len(ckPages[p].text) > 0 =>
                /\ Len(ChunksOfPage(p)) >= 1
                /\ \A i \in 1..Len(PageWords(p)) :
                      \E k \in 1..Len(ChunksOfPage(p)) :
                          LET start == (k - 1) * (ckSize - ckOverlap)
                          IN  /\ start < i
                              /\ i <= start + Len(ChunkWords(p, k))
                              /\ ChunkWords(p, k)[i - start] = PageWords(p)[i]

\* a page longer than one window, chunked with a positive overlap
ChunkCoverageWitness ==
    /\ ckDone
    /\ ckOverlap > 0
    /\ \E p \in 1..Len(ckPages) :
          /\ Len(PageWords(p)) > ckSize
          /\ Len(ChunksOfPage(p)) >= 2

\* the last overlap words of the k-th chunk of page p are the first overlap
\* words of the next chunk
SharesOverlap(p, k) ==
    LET e == ChunkWords(p, k)
        l == ChunkWords(p, k + 1)
    IN  /\ Len(e) >= ckOverlap
        /\ Len(l) >= ckOverlap
        /\ SubSeq(e, Len(e) - ckOverlap + 1, Len(e)) = SubSeq(l, 1, ckOverlap)

\* the words of every chunk are a run of consecutive words of its own page
ChunksWithinPage ==
    \A p \in 1..Len(ckPages) :
        \A k \in 1..Len(ChunksOfPage(p)) :
            \E start \in 0..Len(PageWords(p)) :
                /\ start + Len(ChunkWords(p, k)) <= Len(PageWords(p))
                /\ SubSeq(PageWords(p), start + 1, start + Len(ChunkWords(p, k)))
                       = ChunkWords(p, k)

WindowAlwaysAdvances ==
    [][(ckInLoop /\ ckInLoop' /\ <<ckI, ckChunks>>' # <<ckI, ckChunks>>)
          => ckI' > ckI]_vars

\* C23: for pages with items, without, or both, every chunk of chunkText
\* has non-empty text after trimming and the chunkIndex values are unique
\* and strictly increasing in output order across the pages.
ChunkInvariant ==
    /\ \A k \in 1..Len(ckChunks) : Len(trim(ckChunks[k].text)) > 0
    /\ \A k, l \in 1..Len(ckChunks) :
          k < l => ckChunks[k].chunkIndex < ckChunks[l].chunkIndex

\* a document of a page with items and a page without: chunkText returned
\* chunks of both pages, a paragraph chunk and window chunks
ChunkInvariantWitness ==
    /\ ckDone
    /\ Len(ckPages) = 2
    /\ \E p, q \in 1..2 : Len(ckPages[p].items) > 0 /\ Len(ckPages[q].items) = 0
    /\ Len(ckChunks) >= 3
    /\ \A p \in 1..2 : \E k \in 1..Len(ckChunks) : ckChunks[k].pageNumber = p

\* the chunks returned for page p
ReturnedForPage(p) ==
    { k \in 1..Len(ckChunks) : ckChunks[k].pageNumber = ckPages[p].pageNumber }

\* C24: a short paragraph is dropped unless it is the only content of its
\* page, so a page with positional items and non-empty text yields at
\* least one chunk.
OnlyContentIsKept ==
    ckDone =>
        \A p \in 1..Len(ckPages) :
            (Len(ckPages[p].items) > 0 /\ Len(ckPages[p].text) > 0)
                => ReturnedForPage(p) # {}

(***************************************************************************)
(* Properties of detectScannedPDF, checked under SpecScan                  *)
(***************************************************************************)
RECURSIVE TotalLength(_)
TotalLength(pages) ==
    IF Len(pages) = 0 THEN 0 ELSE Len(pages[1].text) + TotalLength(Tail(pages))

BlankPage(page) == \A i \in 1..Len(page.text) : IsSpace(page.text[i])

\* C12: detectScannedPDF returns true when the texts of all pages together
\* hold fewer than 100 characters, true when some page is blank, and false
\* in every other case.
ScannedDetection ==
    scDone =>
        /\ TotalLength(scPages) < 100 => scResult = TRUE
        /\ (\E p \in 1..Len(scPages) : BlankPage(scPages[p])) => scResult = TRUE
        /\ (TotalLength(scPages) >= 100 /\ \A p \in 1..Len(scPages) : ~BlankPage(scPages[p]))
              => scResult = FALSE

\* a document of exactly 100 characters without a blank page is not scanned
ScannedDetectionWitness ==
    /\ scDone
    /\ TotalLength(scPages) = 100
    /\ Len(scPages) = 2
    /\ \A p \in 1..Len(scPages) : ~BlankPage(scPages[p])
    /\ scResult = FALSE

(***************************************************************************)
(* Properties of the question turn, checked under Spec                     *)
(***************************************************************************)

LastMessage(msgs) == msgs[Len(msgs)]

\* the quota of the cloud provider is read for turn t in this step
QuotaReadNow(t) ==
    /\ turns'[t].routed = "cloud"
    /\ turns'[t].usageAtCheck # -1
    /\ (t > Len(turns) \/ turns[t].usageAtCheck = -1)

RefusalTexts == { LimitText, OfflineLimitText }

\* C1: a question routed to the cloud provider while the usage counter is
\* >= GROQ_LIMIT appends a refusal message and ends its turn in that very
\* step, the usage counter unchanged, and the turn never issues a generation
\* request; a turn that committed the completion raising usage to GROQ_LIMIT
\* is followed by such a refusal
QuotaEnforcement ==
    /\ [][\A t \in 1..Len(turns') :
            (QuotaReadNow(t) /\ groq_usage >= GROQ_LIMIT)
            => /\ turns'[t].pc = "done"
               /\ turns'[t].genRequests = 0
               /\ groq_usage' = groq_usage
               /\ Len(messages') > Len(messages)
               /\ LastMessage(messages').role = "assistant"
               /\ LastMessage(messages').content[1] \in RefusalTexts]_vars
    /\ [](\A t \in 1..Len(turns) :
            (turns[t].routed = "cloud" /\ turns[t].usageAtCheck >= GROQ_LIMIT)
            => /\ turns[t].pc = "done"
               /\ turns[t].outcome \in {"limit", "offline_limit"}
               /\ turns[t].genRequests = 0
               /\ groq_usage >= turns[t].usageAtCheck)

\* a cloud turn committed, usage reached GROQ_LIMIT, and the next
\* cloud-routed question was refused with usage still GROQ_LIMIT
QuotaEnforcementWitness ==
    \E t1, t2 \in 1..Len(turns) :
        /\ t1 < t2
        /\ turns[t1].outcome = "committed" /\ turns[t1].effectiveIsCloud
        /\ turns[t1].usageAtCheck = GROQ_LIMIT - 1
        /\ turns[t2].outcome = "limit" /\ turns[t2].usageAtCheck = GROQ_LIMIT
        /\ turns[t2].genRequests = 0
        /\ groq_usage = GROQ_LIMIT
        /\ LastMessage(messages).content = <<LimitText>>

\* C2: at most one question turn is between its acceptance and its terminal
\* state
OneActiveTurn == Cardinality({ t \in 1..Len(turns) : Active(t) }) <= 1

\* the ranker returns no chunk for turn t, which leaves its import in this step
RankerReturnsNone(t) ==
    /\ t <= Len(turns)
    /\ turns[t].pc = "import"
    /\ turns'[t].pc \notin {"import", "rejected"}
    /\ findRelevantChunks(CharsOf(turns[t].question), DocChunks, RankerTopK,
                          turns[t].history) = <<>>

\* C3: when the ranker returns no chunk for the question, the turn ends in
\* that step with an assistant message saying no relevant content was found,
\* it has issued no generation request and never does, and the usage counter
\* is unchanged
EmptyResultContract ==
    /\ [][\A t \in 1..Len(turns') :
            RankerReturnsNone(t)
            => /\ turns'[t].pc = "done"
               /\ turns'[t].genRequests = 0
               /\ turns'[t].pinRequests = 0
               /\ groq_usage' = groq_usage
               /\ messages' = Append(messages, Message("assistant", <<NoRelevantText>>))
               /\ isLoading' = FALSE]_vars
    /\ [](\A t \in 1..Len(turns) :
            (turns[t].ranked /\ turns[t].relevantChunks = <<>>)
            => turns[t].pc = "done" /\ turns[t].genRequests = 0)

\* a turn of the cloud provider and a turn of the local provider each ended
\* with the ranker returning nothing
EmptyResultContractWitness ==
    \E t \in 1..Len(turns) :
        /\ turns[t].ranked /\ turns[t].relevantChunks = <<>>
        /\ turns[t].outcome = "error"
        /\ turns[t].effectiveIsCloud
        /\ turns[t].usageAtCheck = groq_usage
        /\ LastMessage(messages).content = <<NoRelevantText>>

\* C4: when the pinpoint call throws, the turn commits in that step the
\* assistant message with the full answer, and its sourceChunks are the
\* chunks the ranker returned for the turn, same length and order
PinpointSafety ==
    [][\A t \in 1..Len(turns) :
         (turns[t].pc = "pinpoint" /\ turns'[t].pinOutcome = "threw")
         => /\ turns'[t].outcome = "committed"
            /\ Len(messages') = Len(messages) + 1
            /\ LastMessage(messages').role = "assistant"
            /\ LastMessage(messages').content = turns[t].fullResponse
            /\ turns[t].fullResponse = turns[t].received
            /\ LastMessage(messages').sourceChunks =
                  findRelevantChunks(CharsOf(turns[t].question), DocChunks,
                                     RankerTopK, turns[t].history)
            /\ Len(LastMessage(messages').sourceChunks) > 0]_vars

\* a turn committed a streamed answer after its pinpoint call threw
PinpointSafetyWitness ==
    \E t \in 1..Len(turns) :
        /\ turns[t].pinOutcome = "threw"
        /\ turns[t].outcome = "committed"
        /\ Len(turns[t].fullResponse) > 0
        /\ LastMessage(messages).sourceChunks = turns[t].relevantChunks

IsUser(m) == m.role = "user"

\* C13: the step that accepts a question appends its user message before
\* the turn has issued a generation or pinpoint request, the liveness probe
\* being issued by that same step at the earliest; from then on the k-th
\* user message of the transcript is the question of the k-th turn, whatever
\* the turn's outcome.
UserMessageFirst ==
    /\ [][\A t \in 1..Len(turns') :
            t > Len(turns)
            => /\ Len(messages') > Len(messages)
               /\ messages'[Len(messages) + 1] = Message("user", <<turns'[t].question>>)
               /\ SubSeq(messages', 1, Len(messages)) = messages
               /\ turns'[t].genRequests = 0
               /\ turns'[t].pinRequests = 0]_vars
    /\ [](LET users == SelectSeq(messages, IsUser)
          IN  /\ Len(users) = Len(turns)
              /\ \A t \in 1..Len(turns) : users[t].content = <<turns[t].question>>)

\* a local turn whose backend could not be reached ended in an error, its
\* user message in the transcript
UserMessageFirstWitness ==
    \E t \in 1..Len(turns) :
        /\ turns[t].outcome = "error"
        /\ ~turns[t].effectiveIsCloud
        /\ includesCannotConnect(LastMessage(messages).content)
        /\ \E i \in 1..Len(messages) : messages[i] = Message("user", <<turns[t].question>>)

ErrorTexts == GroqErrors \cup OllamaErrors \cup {NoRelevantText}

\* the turn t ends in the catch block in this step
CaughtNow(t) ==
    /\ turns[t].pc \in {"import", "generate"}
    /\ turns'[t].outcome = "error"

\* a caught error is surfaced as an assistant message with the error's
\* description, the hint appended when the description mentions memory
ErrorsSurfaced ==
    [][\A t \in 1..Len(turns) :
         CaughtNow(t)
         => /\ Len(messages') = Len(messages) + 1
            /\ LastMessage(messages').role = "assistant"
            /\ LastMessage(messages').content[1] \in ErrorTexts
            /\ LastMessage(messages').content =
                  (IF LastMessage(messages').content[1]
                         = "model requires more system memory than is available"
                   THEN <<LastMessage(messages').content[1], MemoryTip>>
                   ELSE <<LastMessage(messages').content[1]>>)
            /\ turns'[t].pc = "done"]_vars

\* C14: every error raised once the turn is querying or streaming is caught
\* inside the turn and surfaced as an assistant message, and no call of
\* processQuestion ends by rejecting to its caller.
ErrorsCaughtInTurn ==
    /\ ErrorsSurfaced
    /\ [](\A t \in 1..Len(turns) : turns[t].outcome # "unhandled")

\* the main generation call of the cloud turn t returns in this step
CloudGenerationReturns(t) ==
    /\ turns[t].effectiveIsCloud
    /\ turns[t].pc = "generate"
    /\ turns'[t].pc = "pinpoint"

\* C15: the step in which the main cloud generation call of a turn returns
\* adds exactly 1 to the usage counter, and no other step changes it: not
\* the end of a turn in an error, not a step of a local turn, not the return
\* or failure of the pinpoint call; a turn that ended in an error never had
\* its generation call return.
UsageCountsCloudCompletions ==
    /\ [][IF \E t \in 1..Len(turns) : CloudGenerationReturns(t)
          THEN groq_usage' = groq_usage + 1
          ELSE groq_usage' = groq_usage]_vars
    /\ [](\A t \in 1..Len(turns) :
            /\ turns[t].outcome \in {"error", "limit", "offline_limit"}
                  => turns[t].pinRequests = 0
            /\ turns[t].outcome = "committed" => turns[t].pinRequests = 1)

\* a cloud turn committed after its pinpoint call threw, usage one above
\* the count its quota check read
UsageCountsCloudCompletionsWitness ==
    /\ Len(turns) = 1
    /\ turns[1].effectiveIsCloud
    /\ turns[1].outcome = "committed"
    /\ turns[1].pinOutcome = "threw"
    /\ groq_usage = turns[1].usageAtCheck + 1

\* C16: the transcript only grows at its end: every step leaves the
\* messages it found in place, unchanged and in the same order.
TranscriptAppendOnly ==
    [][/\ Len(messages') >= Len(messages)
       /\ SubSeq(messages', 1, Len(messages)) = messages]_vars

\* C17: once the main generation call of a turn has returned, the turn
\* eventually commits its answer, whether the pinpoint call throws, returns
\* or stays unanswered.
PinpointNeverBlocks ==
    \A t \in 1..MaxTurns :
        (t <= Len(turns) /\ turns[t].pc = "pinpoint")
            ~> (t <= Len(turns) /\ turns[t].outcome = "committed")

\* the timers of turn t that have not fired yet
PendingJumps(t) ==
    LET OfTurn(timer) == timer.turn = t IN SelectSeq(jumpTimers, OfTurn)

\* the turn t commits its answer in this step
CommitsNow(t) == turns[t].outcome # "committed" /\ turns'[t].outcome = "committed"

\* C18: a turn that commits an answer schedules one 'jump-to-source' event
\* in the committing step, carrying the first of the committed message's
\* sourceChunks, whose pageNumber is the message's pageNumber; the event is
\* dispatched at most once, with that chunk, and the event loop running the
\* timer callback eventually exactly once; a turn that ended in an error or a refusal has none
\* scheduled or dispatched.
JumpToSourceOncePerAnswer ==
    /\ [][\A t \in 1..Len(turns) :
            CommitsNow(t)
            => /\ Len(LastMessage(messages').sourceChunks) > 0
               /\ jumpTimers' = Append(jumpTimers,
                     [turn |-> t, detail |-> LastMessage(messages').sourceChunks[1]])
               /\ LastMessage(messages').sourceChunks[1].pageNumber
                     = LastMessage(messages').pageNumber]_vars
    /\ [](\A t \in 1..Len(turns) :
            /\ Len(turns[t].jumps) + Len(PendingJumps(t))
                  = (IF turns[t].outcome = "committed" THEN 1 ELSE 0)
            /\ \A k \in 1..Len(turns[t].jumps) :
                  \E i \in 1..Len(messages) :
                      /\ messages[i].content = turns[t].fullResponse
                      /\ Len(messages[i].sourceChunks) > 0
                      /\ messages[i].sourceChunks[1] = turns[t].jumps[k])
    /\ \A t \in 1..MaxTurns :
          (t <= Len(turns) /\ turns[t].outcome = "committed")
              ~> (t <= Len(turns) /\ Len(turns[t].jumps) = 1)

\* the event of a committed turn whose pinpoint call narrowed the citation
\* was dispatched, while a second turn ended in an error without any
JumpToSourceOncePerAnswerWitness ==
    \E t1, t2 \in 1..Len(turns) :
        /\ turns[t1].outcome = "committed"
        /\ Len(turns[t1].jumps) = 1
        /\ turns[t1].jumps[1].rects # DocChunks[1].rects
        /\ turns[t1].jumps[1].pageNumber = 2
        /\ turns[t2].outcome = "error"
        /\ Len(turns[t2].jumps) = 0
        /\ jumpTimers = <<>>

\* the liveness probe of turn t reports the local backend unreachable in
\* this step and the turn falls back to the cloud provider
FallsBackNow(t) ==
    /\ turns[t].pc = "probe"
    /\ turns'[t].routed = "cloud"
    /\ turns'[t].outcome # "offline_limit"

\* C19: a turn of a local model whose probe finds the backend unreachable
\* while usage < GROQ_LIMIT runs on 'llama-3.1-8b-instant', and the step
\* appends, after the turn's user message and before its answer or error,
\* the assistant message telling the switch and the GROQ_LIMIT - usage
\* requests left; the selected model changes only through onModelChange:
\* without the callback no step changes selectedModel or isCloudMode.
FallbackForThisTurnOnly ==
    /\ [][\A t \in 1..Len(turns) :
            FallsBackNow(t)
            => /\ groq_usage < GROQ_LIMIT
               /\ ~turns[t].effectiveIsCloud
               /\ turns'[t].effectiveModel = "llama-3.1-8b-instant"
               /\ turns'[t].effectiveIsCloud
               /\ turns'[t].pc = "import"
               /\ messages' = Append(messages,
                     Message("assistant",
                             <<FallbackText, NumberText(GROQ_LIMIT - groq_usage), ")">>))
               /\ \E i \in 1..Len(messages) :
                     messages[i] = Message("user", <<turns[t].question>>)
               /\ selectedModel' = (IF hasOnModelChange THEN "llama-3.1-8b-instant"
                                    ELSE selectedModel)]_vars
    /\ [][~hasOnModelChange
            => (selectedModel' = selectedModel /\ isCloudMode' = isCloudMode)]_vars
    /\ [](\A t \in 1..Len(turns) :
            (turns[t].routed = "cloud" /\ turns[t].genRequests > 0)
                => turns[t].effectiveModel = "llama-3.1-8b-instant")

\* without onModelChange: a turn fell back and committed its answer after
\* the note, the local model still selected, and the next turn probed the
\* local backend again
FallbackForThisTurnOnlyWitness ==
    /\ ~hasOnModelChange
    /\ selectedModel = LocalModel
    /\ Len(turns) = 2
    /\ turns[1].routed = "cloud" /\ turns[1].outcome = "committed"
    /\ turns[2].routed = "local"
    /\ Len(messages) >= 3
    /\ messages[1].role = "user"
    /\ messages[2].content[1] = FallbackText
    /\ messages[3].content = turns[1].fullResponse
    /\ messages[3].role = "assistant"

\* sub is rects itself or a non-empty run of consecutive elements of rects
IsSpanOf(sub, rects) ==
    \/ sub = rects
    \/ /\ Len(sub) > 0
       /\ \E a \in 1..Len(rects) : \E b \in a..Len(rects) : sub = SubSeq(rects, a, b)

\* C25: the sourceChunks a turn commits have the length, order and chunkIds
\* of the ranker's result, each entry's rects being the chunk's rects or a
\* non-empty contiguous span of them, and the chunks the ranker was given
\* and returned keep their text and rects.
PinpointNarrowsOnly ==
    [][\A t \in 1..Len(turns) :
         CommitsNow(t)
         => LET committed == LastMessage(messages').sourceChunks
                ranked == turns[t].relevantChunks
            IN  /\ Len(committed) = Len(ranked)
                /\ \A i \in 1..Len(ranked) :
                      /\ committed[i].chunkId = ranked[i].chunkId
                      /\ committed[i].text = ranked[i].text
                      /\ committed[i].pageNumber = ranked[i].pageNumber
                      /\ IsSpanOf(committed[i].rects, ranked[i].rects)
                      /\ \E d \in 1..Len(DocChunks) : DocChunks[d] = ranked[i]
                /\ turns'[t].relevantChunks = ranked]_vars

\* a committed citation of the page-2 chunk narrowed to the four rects of
\* the phrase, next to a chunk that kept all of its rects
PinpointNarrowsOnlyWitness ==
    /\ Len(messages) > 0
    /\ Len(LastMessage(messages).sourceChunks) = 2
    /\ LastMessage(messages).sourceChunks[1].chunkId = "chunk-2-0"
    /\ LastMessage(messages).sourceChunks[1].rects = <<2, 3, 4, 5>>
    /\ LastMessage(messages).sourceChunks[2].rects = DocChunks[2].rects
    /\ \E t \in 1..Len(turns) :
          turns[t].pinOutcome = "returned" /\ turns[t].relevantChunks = DocChunks

\* the messages this step appends to the transcript
AppendedNow ==
    IF Len(messages') >= Len(messages) /\ SubSeq(messages', 1, Len(messages)) = messages
    THEN SubSeq(messages', Len(messages) + 1, Len(messages'))
    ELSE <<>>

\* the informational message of the fallback
IsFallbackNote(m) ==
    m.role = "assistant" /\ Len(m.content) > 0 /\ m.content[1] = FallbackText

\* an answer or an error message
IsTerminal(m) == m.role = "assistant" /\ ~IsFallbackNote(m)

\* the call of turn t has returned or its promise was rejected
Ended(pc) == pc \in {"done", "rejected"}

\* this step accepts the call that becomes turn t
AcceptsNow(t) == t = Len(turns') /\ Len(turns') = Len(turns) + 1

\* this step is a step of the call of turn t
ActsNow(t) ==
    \/ AcceptsNow(t)
    \/ t <= Len(turns) /\ [turns'[t] EXCEPT !.jumps = turns[t].jumps] # turns[t]

\* this step ends the call of turn t
EndsNow(t) ==
    /\ ActsNow(t)
    /\ Ended(turns'[t].pc)
    /\ AcceptsNow(t) \/ ~Ended(turns[t].pc)

\* C26: an accepted call appends one user message when it is accepted, at
\* most one fallback note (in its probe step) and exactly one terminal
\* assistant message, in the step that ends it, in that order; a rejected
\* call and every other step append nothing.
OneTerminalMessagePerTurn ==
    [][LET added == AppendedNow
           users == { i \in 1..Len(added) : added[i].role = "user" }
           notes == { i \in 1..Len(added) : IsFallbackNote(added[i]) }
           terminals == { i \in 1..Len(added) : IsTerminal(added[i]) }
       IN  /\ (\A t \in 1..Len(turns') : ~ActsNow(t)) => Len(added) = 0
           /\ \A t \in 1..Len(turns') :
                 ActsNow(t)
                 => /\ users = (IF AcceptsNow(t) THEN {1} ELSE {})
                    /\ Cardinality(notes) <= 1
                    /\ notes # {} => (~AcceptsNow(t) /\ turns[t].pc = "probe" /\ 1 \in notes)
                    /\ Cardinality(terminals) = (IF EndsNow(t) THEN 1 ELSE 0)
                    /\ terminals # {} => Len(added) \in terminals
                    /\ (~AcceptsNow(t) /\ Ended(turns[t].pc)) => Len(added) = 0]_vars

\* C27: whenever no turn is in flight, isLoading is false and
\* streamingContent is empty, so that a further question is accepted (the
\* part of the claim that every accepted turn ends Committed or Errored
\* fails in the same behaviours: the turn below ends as neither).
ReadyWhenIdle ==
    (\A t \in 1..Len(turns) : ~Active(t))
        => (isLoading = FALSE /\ streamingContent = <<>>)

\* this step sends a request of turn t to the cloud backend: the generation
\* call or the pinpoint call of a turn whose effective provider is the cloud
SendsCloudRequestNow(t) ==
    /\ turns'[t].effectiveIsCloud
    /\ \/ turns'[t].genRequests > turns[t].genRequests
       \/ turns'[t].pinRequests > turns[t].pinRequests

\* C28: no request is sent to the cloud backend while the usage counter is
\* at or above GROQ_LIMIT, the counter read as the step that sends the
\* request leaves it.
NoCloudRequestAtLimit ==
    [][\A t \in 1..Len(turns) :
         SendsCloudRequestNow(t) => groq_usage' < GROQ_LIMIT]_vars

\* C29: the cloud usage counter never exceeds GROQ_LIMIT, whatever the
\* interleaving of submissions with the steps of the turns under way.
UsageNeverExceedsLimit == groq_usage <= GROQ_LIMIT

(***************************************************************************)
(* Properties of the read loops, checked under SpecStream                  *)
(***************************************************************************)
RECURSIVE SentBeforeDone(_)
\* the non-empty increments of the objects sent before the one that ends
\* the stream
SentBeforeDone(objects) ==
    IF Len(objects) = 0 \/ objects[1].done THEN <<>>
    ELSE (IF Len(objects[1].response) > 0 THEN << objects[1].response >> ELSE <<>>)
         \o SentBeforeDone(Tail(objects))

RECURSIVE Concat(_)
Concat(pieces) == IF Len(pieces) = 0 THEN <<>> ELSE pieces[1] \o Concat(Tail(pieces))

\* C30: however the transport cuts the body into reads, queryOllama and
\* queryGroq forward to onStream, in order, the increments of the objects
\* sent before the end of the stream and return their concatenation, which
\* is the concatenation of what was forwarded.
StreamReassembly ==
    stReturned =>
        /\ stForwarded = SentBeforeDone(stObjects)
        /\ stResponse = Concat(SentBeforeDone(stObjects))
        /\ stResponse = Concat(stForwarded)

====
